---- MODULE Spec2Model ----
(***************************************************************************)
(* Indicator engine of lightweight_charts_v5/indicators.py.                *)
(*                                                                         *)
(* A DataFrame is modelled as `df` (the base columns, one record per row)  *)
(* plus `cols` (the derived columns the indicators add to the same         *)
(* DataFrame, keyed by column name).  Row positions are 0-based as in the  *)
(* source (iloc); the `time` of a series point is the row position of its  *)
(* bar (dates are unique and ascending, so str(date) identifies the row).  *)
(*                                                                         *)
(* A float is a pair <<n, d>> with d >= 0 in lowest terms: d > 0 is the    *)
(* rational n/d, <<1,0>> is +inf, <<-1,0>> is -inf and <<0,0>> is NaN, so  *)
(* division by zero behaves as numpy/pandas division does.  Rounding and   *)
(* the sign of zero are not modelled.                                      *)
(***************************************************************************)
EXTENDS Integers, Sequences, FiniteSets, TLC

VARIABLES
    df,     \* base columns of the DataFrame: sequence of bars
    cols,   \* derived columns of the DataFrame: column key -> sequence of floats
    self,   \* the indicator object (constructor arguments and pivot lists)
    ret,    \* value returned by the last method call
    op      \* the last method that ran on the object

vars == <<df, cols, self, ret, op>>

----------------------------------------------------------------------------
(* Bounds of the model *)

MaxN == 5           \* longest bar sequence
MaxStrength == 2    \* left/right strengths range over 0..MaxStrength
MaxPeriod == 3      \* SMA / Williams %R periods and RSI windows range over 1..MaxPeriod
MaxSpan == 2        \* MACD spans range over 1..MaxSpan
MaxVolumeN == 4     \* longest bar sequence with varying volumes
MaxRayN == 4        \* longest bar sequence with closes above earlier highs
MaxPriceN == 3      \* longest bar sequence of a price pane
MaxThemes == 2      \* theme objects resolved in one run
MaxDicts == 2       \* to_dict() calls in one run

----------------------------------------------------------------------------
(* Python helpers: 0-based indexing, range(), min(), abs() *)

At(s, i) == s[i + 1]

Range(a, b) == a .. (b - 1)

Min(a, b) == IF a < b THEN a ELSE b

Max(a, b) == IF a > b THEN a ELSE b

Abs(x) == IF x < 0 THEN -x ELSE x

Sgn(x) == IF x > 0 THEN 1 ELSE IF x < 0 THEN -1 ELSE 0

RECURSIVE Gcd(_, _)
Gcd(a, b) == IF b = 0 THEN a ELSE Gcd(b, a % b)

----------------------------------------------------------------------------
(* float64 arithmetic (numpy semantics for inf and NaN) *)

NaN == <<0, 0>>

Inf == <<1, 0>>

NegInf == <<-1, 0>>

Norm(n, d) ==
    IF d = 1 THEN <<n, 1>>
    ELSE IF d = 0 THEN <<Sgn(n), 0>>
    ELSE LET g == Gcd(Abs(n), Abs(d))
             s == IF d < 0 THEN -1 ELSE 1
         IN  <<(s * n) \div g, (s * d) \div g>>

Float(x) == <<x, 1>>

IsNaN(a) == a = NaN

IsFinite(a) == a[2] > 0

FNeg(a) == <<-a[1], a[2]>>

FAdd(a, b) ==
    IF a[2] = 0 /\ b[2] = 0
    THEN (IF a = b THEN a ELSE NaN)
    ELSE Norm(a[1] * b[2] + b[1] * a[2], a[2] * b[2])

FSub(a, b) == FAdd(a, FNeg(b))

FMul(a, b) == Norm(a[1] * b[1], a[2] * b[2])

FDiv(a, b) ==
    LET n == a[1] * b[2]
        d == a[2] * b[1]
    IN  IF b[1] < 0 THEN Norm(-n, -d) ELSE Norm(n, d)

FGt(a, b) == ~IsNaN(a) /\ ~IsNaN(b) /\ a[1] * b[2] > b[1] * a[2]

FLt(a, b) == FGt(b, a)

FGe(a, b) == ~IsNaN(a) /\ ~IsNaN(b) /\ a[1] * b[2] >= b[1] * a[2]

\* pandas notnull / notna: only NaN is null, an infinity is a value
notnull(a) == ~IsNaN(a)

----------------------------------------------------------------------------
(* pandas Series helpers; a Series is a sequence of floats *)

\* the array [f[1], ..., f[n]], every cell computed once
Array(f, n) == SubSeq(f, 1, n)

Column(d, name) ==
    Array([t \in 1..Len(d) |->
              Float(CASE name = "open" -> d[t].open
                      [] name = "high" -> d[t].high
                      [] name = "low" -> d[t].low
                      [] name = "close" -> d[t].close
                      [] name = "volume" -> d[t].volume)], Len(d))

NaNColumn(d) == Array([t \in 1..Len(d) |-> NaN], Len(d))

\* the DataFrame has the base column: df[name] does not raise KeyError
HasBaseColumn(d, name) == d = <<>> \/ name \in DOMAIN d[1]

RECURSIVE FSum(_)
FSum(s) == IF s = <<>> THEN Float(0) ELSE FAdd(Head(s), FSum(Tail(s)))

\* Series.cumsum()
RECURSIVE CumSumFrom(_, _, _)
CumSumFrom(s, t, acc) ==
    IF t > Len(s) THEN <<>>
    ELSE LET a == FAdd(acc, s[t]) IN <<a>> \o CumSumFrom(s, t + 1, a)

cumsum(s) == CumSumFrom(s, 1, Float(0))

\* the non-NaN observations of s[a..b] (1-based, inclusive)
RECURSIVE Observations(_, _, _)
Observations(s, a, b) ==
    IF a > b THEN <<>>
    ELSE (IF IsNaN(s[a]) THEN <<>> ELSE <<s[a]>>) \o Observations(s, a + 1, b)

\* Series.rolling(window, min_periods).mean()
RollingMean(s, window, min_periods) ==
    [t \in 1..Len(s) |->
        LET obs == Observations(s, Max(1, t - window + 1), t)
        IN  IF Len(obs) >= min_periods
            THEN FDiv(FSum(obs), Float(Len(obs)))
            ELSE NaN]

RECURSIVE FMaxOf(_)
FMaxOf(s) ==
    IF Len(s) = 1 THEN Head(s)
    ELSE LET m == FMaxOf(Tail(s)) IN IF FGt(Head(s), m) THEN Head(s) ELSE m

RECURSIVE FMinOf(_)
FMinOf(s) ==
    IF Len(s) = 1 THEN Head(s)
    ELSE LET m == FMinOf(Tail(s)) IN IF FLt(Head(s), m) THEN Head(s) ELSE m

\* Series.rolling(window).max(), min_periods defaults to window
RollingMax(s, window) ==
    [t \in 1..Len(s) |->
        LET obs == Observations(s, Max(1, t - window + 1), t)
        IN  IF Len(obs) >= window THEN FMaxOf(obs) ELSE NaN]

\* Series.rolling(window).min(), min_periods defaults to window
RollingMin(s, window) ==
    [t \in 1..Len(s) |->
        LET obs == Observations(s, Max(1, t - window + 1), t)
        IN  IF Len(obs) >= window THEN FMinOf(obs) ELSE NaN]

\* Series.diff(): the first row has no predecessor
diff(s) == [t \in 1..Len(s) |-> IF t = 1 THEN NaN ELSE FSub(s[t], s[t - 1])]

\* Series.clip(lower=0): NaN stays NaN
clip_lower0(s) == [t \in 1..Len(s) |-> IF FLt(s[t], Float(0)) THEN Float(0) ELSE s[t]]

\* Series.clip(upper=0): NaN stays NaN
clip_upper0(s) == [t \in 1..Len(s) |-> IF FGt(s[t], Float(0)) THEN Float(0) ELSE s[t]]

\* an exponential mean with alpha = 1/(span+1)
RECURSIVE EwmFromAlphaOverSpan(_, _, _, _)
EwmFromAlphaOverSpan(s, span, t, prev) ==
    IF t > Len(s) THEN <<>>
    ELSE LET alpha == FDiv(Float(1), Float(span + 1))
             y == IF t = 1 THEN s[1]
                  ELSE FAdd(FMul(FSub(Float(1), alpha), prev), FMul(alpha, s[t]))
         IN  <<y>> \o EwmFromAlphaOverSpan(s, span, t + 1, y)

\* the rows t.. of Series.ewm(span, adjust=False).mean(), prev being row t-1:
\* y_0 = x_0, y_t = (1-a) y_{t-1} + a x_t with a = 2/(span+1)
RECURSIVE EwmFrom(_, _, _, _)
EwmFrom(s, span, t, prev) ==
    IF t > Len(s) THEN <<>>
    ELSE LET alpha == FDiv(Float(2), Float(span + 1))
             y == IF t = 1 THEN s[1]
                  ELSE FAdd(FMul(FSub(Float(1), alpha), prev), FMul(alpha, s[t]))
         IN  <<y>> \o EwmFrom(s, span, t + 1, y)

ewm_mean(s, span) == EwmFrom(s, span, 1, NaN)

\* the {time, value} records of the rows whose value is not null
RECURSIVE NotNullRecords(_, _)
NotNullRecords(s, t) ==
    IF t > Len(s) THEN <<>>
    ELSE (IF notnull(s[t]) THEN <<[time |-> t - 1, value |-> s[t]]>> ELSE <<>>)
         \o NotNullRecords(s, t + 1)

----------------------------------------------------------------------------
(* The DataFrame's derived columns *)

\* name of a derived column: an f-string of a prefix and up to two parameters
ColKey(name, a, b) == [name |-> name, a |-> a, b |-> b]

NoCols == [k \in {} |-> <<>>]

HasCol(c, key) == key \in DOMAIN c

\* df[key] = series: adds the column or rewrites it
SetCol(c, key, series) ==
    [k \in (DOMAIN c) \cup {key} |-> IF k = key THEN series ELSE c[k]]

----------------------------------------------------------------------------
(* Objects and return values *)

NoStyle == -1       \* a descriptor whose options carry no lineStyle key

NewObject(cls) ==
    [cls |-> cls,
     period |-> 0, window |-> 0, fast_period |-> 0, slow_period |-> 0, signal_period |-> 0,
     left_strength |-> 0, right_strength |-> 0, realistic_mode |-> FALSE,
     show_pivot_high |-> TRUE, show_pivot_low |-> TRUE,
     pivot_high_indices |-> <<>>, pivot_low_indices |-> <<>>]

Returned(kind, series) == [kind |-> kind, series |-> series]

None == Returned("None", <<>>)

KeyError == Returned("KeyError", <<>>)

Series(type, data, color, lineStyle) ==
    [type |-> type, data |-> data, color |-> color, lineStyle |-> lineStyle]

LineSeries(data, color, lineStyle) == Series("Line", data, color, lineStyle)

Pane(series, title) == [kind |-> "pane", series |-> series, title |-> title]

----------------------------------------------------------------------------
(* Pivot detection: AVWAPIndicator._find_pivots, PivotHighIndicator._find_pivots *)

\* variant: only the bars to the left are compared
IsPivotAtLeftOnly(series, left_strength, right_strength, pivot_type, i) ==
    IF pivot_type = "high"
    THEN \A j \in Range(1, left_strength + 1) : FGt(At(series, i), At(series, i - j))
    ELSE \A j \in Range(1, left_strength + 1) : FLt(At(series, i), At(series, i - j))

\* variant: ties count as extrema (>= and <= in place of > and <)
IsPivotAtNonStrict(series, left_strength, right_strength, pivot_type, i) ==
    IF pivot_type = "high"
    THEN /\ \A j \in Range(1, left_strength + 1) : FGe(At(series, i), At(series, i - j))
         /\ \A j \in Range(1, right_strength + 1) : FGe(At(series, i), At(series, i + j))
    ELSE /\ \A j \in Range(1, left_strength + 1) : FGe(At(series, i - j), At(series, i))
         /\ \A j \in Range(1, right_strength + 1) : FGe(At(series, i + j), At(series, i))

\* the condition of the loop body at index i
IsPivotAt(series, left_strength, right_strength, pivot_type, i) ==
    IF pivot_type = "high"
    THEN /\ \A j \in Range(1, left_strength + 1) : FGt(At(series, i), At(series, i - j))
         /\ \A j \in Range(1, right_strength + 1) : FGt(At(series, i), At(series, i + j))
    ELSE /\ \A j \in Range(1, left_strength + 1) : FLt(At(series, i), At(series, i - j))
         /\ \A j \in Range(1, right_strength + 1) : FLt(At(series, i), At(series, i + j))

\* for i in range(i, stop): if <pivot at i>: pivots.append(i)
RECURSIVE PivotLoop(_, _, _, _, _, _)
PivotLoop(series, left_strength, right_strength, pivot_type, i, stop) ==
    IF i >= stop THEN <<>>
    ELSE (IF IsPivotAt(series, left_strength, right_strength, pivot_type, i)
          THEN <<i>> ELSE <<>>)
         \o PivotLoop(series, left_strength, right_strength, pivot_type, i + 1, stop)

\* variant: the scan stops one row early, range(left, len - right - 1)
_find_pivots_short_scan(series, left_strength, right_strength, pivot_type) ==
    IF Len(series) < left_strength + right_strength + 1 THEN <<>>
    ELSE PivotLoop(series, left_strength, right_strength, pivot_type,
                   left_strength, Len(series) - right_strength - 1)

_find_pivots(series, left_strength, right_strength, pivot_type) ==
    IF Len(series) < left_strength + right_strength + 1 THEN <<>>
    ELSE LET stop == Len(series) - right_strength
         IN  PivotLoop(series, left_strength, right_strength, pivot_type,
                       left_strength, stop)

PivotHigh_find_pivots(d, o) ==
    LET high == Column(d, "high")
    IN  IF Len(d) < o.left_strength + o.right_strength + 1 THEN <<>>
        ELSE PivotLoop(high, o.left_strength, o.right_strength, "high",
                       o.left_strength, Len(d) - o.right_strength)

----------------------------------------------------------------------------
(* AVWAPIndicator *)

AVWAPOutputColumns(o) ==
    <<ColKey("AVWAP_high", o.left_strength, o.right_strength),
      ColKey("AVWAP_low", o.left_strength, o.right_strength)>>

\* VWAP of the rows start_idx .. end_idx-1, accumulated from start_idx
RECURSIVE AnchoredVwapFrom(_, _, _, _, _)
AnchoredVwapFrom(segment, pivot_type, t, cumulative_pv, cumulative_volume) ==
    IF t > Len(segment) THEN <<>>
    ELSE LET price == IF pivot_type = "high" THEN segment[t].high ELSE segment[t].low
             pv == cumulative_pv + price * segment[t].volume
             v == cumulative_volume + segment[t].volume
         IN  <<IF v # 0 THEN FDiv(Float(pv), Float(v)) ELSE NaN>>
             \o AnchoredVwapFrom(segment, pivot_type, t + 1, pv, v)

\* a VWAP accumulated from the bar after the anchor
_calculate_anchored_vwap_after_anchor(d, start_idx, end_idx, pivot_type) ==
    IF start_idx >= end_idx THEN <<>>
    ELSE <<NaN>> \o AnchoredVwapFrom(SubSeq(d, start_idx + 2, end_idx), pivot_type, 1, 0, 0)

_calculate_anchored_vwap(d, start_idx, end_idx, pivot_type) ==
    LET segment == SubSeq(d, start_idx + 1, end_idx)
    IN  AnchoredVwapFrom(segment, pivot_type, 1, 0, 0)

\* the rows pivot i writes in calculate(): plot_start_idx .. end_idx-1
AVWAPEndIdx(d, o, pivots, i) ==
    IF o.realistic_mode THEN Len(d)
    ELSE IF i + 1 < Len(pivots) THEN At(pivots, i + 1) ELSE Len(d)

AVWAPPlotStartIdx(o, pivots, i) ==
    IF o.realistic_mode THEN At(pivots, i) + o.right_strength ELSE At(pivots, i)

\* one of the two loops of calculate(): the pivots write their VWAP into the
\* NaN column in ascending order, so a row holds what the last pivot that
\* writes it has put there
AVWAPFill(d, o, pivots, pivot_type) ==
    LET vwap_values ==
            Array([k \in 1..Len(pivots) |->
                      _calculate_anchored_vwap(d, pivots[k],
                                               AVWAPEndIdx(d, o, pivots, k - 1),
                                               pivot_type)], Len(pivots))
        writers(idx) ==
            {i \in Range(0, Len(pivots)) :
                /\ AVWAPPlotStartIdx(o, pivots, i) <= idx
                /\ idx < AVWAPEndIdx(d, o, pivots, i)}
        last(idx) == CHOOSE i \in writers(idx) : \A i2 \in writers(idx) : i2 <= i
    IN  Array([t \in 1..Len(d) |->
                  IF writers(t - 1) = {} THEN NaN
                  ELSE At(At(vwap_values, last(t - 1)),
                          (t - 1) - At(pivots, last(t - 1)))], Len(d))

AVWAPPivotHighs(d, o) ==
    LET high == Column(d, "high")
    IN  _find_pivots(high, o.left_strength, o.right_strength, "high")

AVWAPPivotLows(d, o) ==
    LET low == Column(d, "low")
    IN  _find_pivots(low, o.left_strength, o.right_strength, "low")

\* the object after calculate()
AVWAPCalculatedObject(d, o) ==
    [o EXCEPT !.pivot_high_indices = AVWAPPivotHighs(d, o),
              !.pivot_low_indices = AVWAPPivotLows(d, o)]

\* the derived columns after calculate()
\* the derived columns after calculate(): without a volume column the first
\* _calculate_anchored_vwap raises KeyError, which the except clause of
\* calculate() prints and drops, and both columns stay as initialised (NaN)
AVWAPCalculatedCols(d, c, o) ==
    LET pivot_high_indices == AVWAPPivotHighs(d, o)
        pivot_low_indices == AVWAPPivotLows(d, o)
    IN  IF ~HasBaseColumn(d, "volume")
           /\ (pivot_high_indices # <<>> \/ pivot_low_indices # <<>>)
        THEN SetCol(SetCol(c, AVWAPOutputColumns(o)[1], NaNColumn(d)),
                    AVWAPOutputColumns(o)[2], NaNColumn(d))
        ELSE LET hi == AVWAPFill(d, o, pivot_high_indices, "high")
                 lo == AVWAPFill(d, o, pivot_low_indices, "low")
             IN  SetCol(SetCol(c, AVWAPOutputColumns(o)[1], hi),
                        AVWAPOutputColumns(o)[2], lo)

\* for idx in range(a, b): if idx < len(df) and notna(value): append
RECURSIVE AVWAPSegmentData(_, _, _)
AVWAPSegmentData(col, idx, stop) ==
    IF idx >= stop THEN <<>>
    ELSE (IF idx < Len(col) /\ notnull(At(col, idx))
          THEN <<[time |-> idx, value |-> At(col, idx)]>> ELSE <<>>)
         \o AVWAPSegmentData(col, idx + 1, stop)

\* realistic-mode descriptors drawn from the pivot itself instead of from its
\* confirmation, and dashed
AVWAPPivotConfigsUnconfirmed(d, o, pivots, col, color, i) ==
    LET start_idx == At(pivots, i)
        end_idx == IF i < Len(pivots) - 1
                   THEN At(pivots, i + 1) + o.right_strength
                   ELSE Len(d)
        segment_data == AVWAPSegmentData(col, start_idx, end_idx)
    IN  IF segment_data # <<>> THEN <<LineSeries(segment_data, color, 2)>> ELSE <<>>

\* realistic-mode descriptors that stop at the next pivot instead of at its
\* confirmation
AVWAPPivotConfigsCutAtPivot(d, o, pivots, col, color, i) ==
    LET start_idx == At(pivots, i)
        end_idx == IF i < Len(pivots) - 1 THEN At(pivots, i + 1) ELSE Len(d)
        segment_data == AVWAPSegmentData(col, start_idx + o.right_strength, end_idx)
    IN  IF segment_data # <<>> THEN <<LineSeries(segment_data, color, NoStyle)>> ELSE <<>>

\* descriptors whose solid part starts at the pivot and which are emitted even
\* when they hold no point
AVWAPPivotConfigsOverlapping(d, o, pivots, col, color, i) ==
    LET start_idx == At(pivots, i)
        end_idx == IF i < Len(pivots) - 1 THEN At(pivots, i + 1) ELSE Len(d)
    IN  <<LineSeries(AVWAPSegmentData(col, start_idx,
                                      Min(start_idx + o.right_strength, end_idx)),
                     color, 2),
          LineSeries(AVWAPSegmentData(col, start_idx, end_idx), color, 0)>>

\* realistic-mode descriptors that run to the end of the data for every pivot,
\* as far as calculate() first writes each pivot's VWAP
AVWAPPivotConfigsToEnd(d, o, pivots, col, color, i) ==
    LET start_idx == At(pivots, i)
    IN  IF ~o.realistic_mode
        THEN LET end_idx == IF i < Len(pivots) - 1 THEN At(pivots, i + 1) ELSE Len(d)
                 dashed_segment_data ==
                     AVWAPSegmentData(col, start_idx,
                                      Min(start_idx + o.right_strength, end_idx))
                 solid_segment_data ==
                     AVWAPSegmentData(col, start_idx + o.right_strength, end_idx)
             IN  (IF dashed_segment_data # <<>>
                  THEN <<LineSeries(dashed_segment_data, color, 2)>> ELSE <<>>)
                 \o (IF solid_segment_data # <<>>
                     THEN <<LineSeries(solid_segment_data, color, 0)>> ELSE <<>>)
        ELSE LET segment_data ==
                     AVWAPSegmentData(col, start_idx + o.right_strength, Len(d))
             IN  IF segment_data # <<>>
                 THEN <<LineSeries(segment_data, color, NoStyle)>> ELSE <<>>

\* the descriptors get_series_configs() appends for pivot i of one kind
AVWAPPivotConfigs(d, o, pivots, col, color, i) ==
    LET start_idx == At(pivots, i)
    IN  IF ~o.realistic_mode
        THEN LET end_idx == IF i < Len(pivots) - 1 THEN At(pivots, i + 1) ELSE Len(d)
                 dashed_segment_data ==
                     AVWAPSegmentData(col, start_idx,
                                      Min(start_idx + o.right_strength, end_idx))
                 solid_segment_data ==
                     AVWAPSegmentData(col, start_idx + o.right_strength, end_idx)
             IN  (IF dashed_segment_data # <<>>
                  THEN <<LineSeries(dashed_segment_data, color, 2)>> ELSE <<>>)
                 \o (IF solid_segment_data # <<>>
                     THEN <<LineSeries(solid_segment_data, color, 0)>> ELSE <<>>)
        ELSE LET end_idx == IF i < Len(pivots) - 1
                            THEN At(pivots, i + 1) + o.right_strength
                            ELSE Len(d)
                 segment_data ==
                     AVWAPSegmentData(col, start_idx + o.right_strength, end_idx)
             IN  IF segment_data # <<>>
                 THEN <<LineSeries(segment_data, color, NoStyle)>> ELSE <<>>

RECURSIVE AVWAPKindConfigs(_, _, _, _, _, _)
AVWAPKindConfigs(d, o, pivots, col, color, i) ==
    IF i >= Len(pivots) THEN <<>>
    ELSE AVWAPPivotConfigs(d, o, pivots, col, color, i)
         \o AVWAPKindConfigs(d, o, pivots, col, color, i + 1)

\* variant: the empty placeholder series of get_series_config() is returned
\* when there is nothing to draw
AVWAP_get_series_configs_placeholder(d, c, o) ==
    LET configs ==
            (IF o.show_pivot_high
             THEN AVWAPKindConfigs(d, o, o.pivot_high_indices,
                                   c[AVWAPOutputColumns(o)[1]], "pivot_high", 0)
             ELSE <<>>)
            \o (IF o.show_pivot_low
                THEN AVWAPKindConfigs(d, o, o.pivot_low_indices,
                                      c[AVWAPOutputColumns(o)[2]], "pivot_low", 0)
                ELSE <<>>)
    IN  IF configs # <<>> THEN configs
        ELSE <<LineSeries(<<>>, "pivot_high", NoStyle)>>

AVWAP_get_series_configs(d, c, o) ==
    (IF o.show_pivot_high
     THEN AVWAPKindConfigs(d, o, o.pivot_high_indices,
                           c[AVWAPOutputColumns(o)[1]], "pivot_high", 0)
     ELSE <<>>)
    \o (IF o.show_pivot_low
        THEN AVWAPKindConfigs(d, o, o.pivot_low_indices,
                              c[AVWAPOutputColumns(o)[2]], "pivot_low", 0)
        ELSE <<>>)

AVWAPCalculate ==
    /\ self.cls = "AVWAP"
    /\ self' = AVWAPCalculatedObject(df, self)
    /\ cols' = AVWAPCalculatedCols(df, cols, self)
    /\ ret' = None
    /\ op' = "calculate"
    /\ UNCHANGED df

AVWAPGetSeriesConfigs ==
    /\ self.cls = "AVWAP"
    /\ ret' = Returned("series", AVWAP_get_series_configs(df, cols, self))
    /\ op' = "get_series_configs"
    /\ UNCHANGED <<df, cols, self>>

----------------------------------------------------------------------------
(* PivotHighIndicator *)

PivotHighOutputColumn(o) == ColKey("PivotHigh", o.left_strength, o.right_strength)

\* a forward scan that only looks for a close above the pivot price
RECURSIVE PivotHighScanCloseOnly(_, _, _, _, _)
PivotHighScanCloseOnly(d, o, pivots, i, j) ==
    IF j >= Len(d) THEN Len(d)
    ELSE IF At(d, j).close > At(d, At(pivots, i)).high THEN j
    ELSE PivotHighScanCloseOnly(d, o, pivots, i, j + 1)

\* the forward scan "for j in range(j, len(df))" that finds end_idx for pivot i:
\* the close test comes first, then the loop over the later pivots k
RECURSIVE PivotHighScan(_, _, _, _, _)
PivotHighScan(d, o, pivots, i, j) ==
    IF j >= Len(d) THEN Len(d)
    ELSE IF At(d, j).close > At(d, At(pivots, i)).high THEN j
    ELSE LET confirmed(k) == At(pivots, k) + o.right_strength
             hits == {k \in Range(i + 1, Len(pivots)) :
                        IF o.realistic_mode THEN j = confirmed(k) ELSE j >= confirmed(k)}
             first == CHOOSE k \in hits : \A k2 \in hits : k <= k2
         IN  IF hits # {}
             THEN (IF o.realistic_mode THEN j ELSE confirmed(first))
             ELSE PivotHighScan(d, o, pivots, i, j + 1)

\* the loop of calculate(): pivots i, i+1, ... write their price into column col
RECURSIVE PivotHighFill(_, _, _, _, _)
PivotHighFill(d, o, pivots, col, i) ==
    IF i >= Len(pivots) THEN col
    ELSE LET pivot_idx == At(pivots, i)
             pivot_price == Float(At(d, pivot_idx).high)
             plot_start_idx == IF o.realistic_mode
                               THEN pivot_idx + o.right_strength
                               ELSE pivot_idx
             end_idx == PivotHighScan(d, o, pivots, i, plot_start_idx + 1)
             written == Array([t \in 1..Len(col) |->
                                 IF t - 1 >= plot_start_idx /\ t - 1 < end_idx
                                 THEN pivot_price ELSE col[t]], Len(col))
         IN  PivotHighFill(d, o, pivots, written, i + 1)

\* a calculate() that adds the pivots it finds to those of the previous call
PivotHighCalculatedObjectAppending(d, o) ==
    [o EXCEPT !.pivot_high_indices = o.pivot_high_indices \o PivotHigh_find_pivots(d, o)]

PivotHighCalculatedObject(d, o) ==
    [o EXCEPT !.pivot_high_indices = PivotHigh_find_pivots(d, o)]

\* without a close column the scan of the first pivot raises KeyError as soon
\* as it has a bar to look at; the except clause of calculate() prints and
\* drops it, and the column stays as initialised (NaN)
PivotHighCalculatedCols(d, c, o) ==
    LET pivot_high_indices == PivotHigh_find_pivots(d, o)
        empty == NaNColumn(d)
        plot_start_idx == At(pivot_high_indices, 0)
                          + (IF o.realistic_mode THEN o.right_strength ELSE 0)
    IN  IF ~HasBaseColumn(d, "close") /\ pivot_high_indices # <<>>
           /\ plot_start_idx + 1 < Len(d)
        THEN SetCol(c, PivotHighOutputColumn(o), empty)
        ELSE SetCol(c, PivotHighOutputColumn(o),
                    PivotHighFill(d, o, pivot_high_indices, empty, 0))

\* for idx in range(idx, stop): if idx < len(df): append {time, value: pivot_price}
RECURSIVE PivotHighSegmentData(_, _, _, _)
PivotHighSegmentData(d, pivot_price, idx, stop) ==
    IF idx >= stop THEN <<>>
    ELSE (IF idx < Len(d) THEN <<[time |-> idx, value |-> pivot_price]>> ELSE <<>>)
         \o PivotHighSegmentData(d, pivot_price, idx + 1, stop)

\* descriptors whose realistic-mode ray ends where the normal-mode ray ends:
\* the scan starts right after the pivot
PivotHighPivotConfigsScanFromPivot(d, o, pivots, i) ==
    LET pivot_idx == At(pivots, i)
        pivot_price == Float(At(d, pivot_idx).high)
        end_idx == PivotHighScan(d, [o EXCEPT !.realistic_mode = FALSE],
                                 pivots, i, pivot_idx + 1)
    IN  IF o.realistic_mode
        THEN LET segment_data ==
                     PivotHighSegmentData(d, pivot_price,
                                          pivot_idx + o.right_strength, end_idx)
             IN  IF segment_data # <<>>
                 THEN <<LineSeries(segment_data, "color", 0)>> ELSE <<>>
        ELSE LET dashed_end_idx == Min(pivot_idx + o.right_strength, end_idx)
                 dashed_segment_data ==
                     PivotHighSegmentData(d, pivot_price, pivot_idx, dashed_end_idx)
                 solid_segment_data ==
                     PivotHighSegmentData(d, pivot_price, dashed_end_idx, end_idx)
             IN  (IF dashed_segment_data # <<>>
                  THEN <<LineSeries(dashed_segment_data, "color", 1)>> ELSE <<>>)
                 \o (IF solid_segment_data # <<>>
                     THEN <<LineSeries(solid_segment_data, "color", 0)>> ELSE <<>>)

\* the descriptors get_series_configs() appends for pivot i
PivotHighPivotConfigs(d, o, pivots, i) ==
    LET pivot_idx == At(pivots, i)
        pivot_price == Float(At(d, pivot_idx).high)
    IN  IF o.realistic_mode
        THEN LET start_idx == pivot_idx + o.right_strength
                 end_idx == PivotHighScan(d, o, pivots, i, start_idx + 1)
                 segment_data == PivotHighSegmentData(d, pivot_price, start_idx, end_idx)
             IN  IF segment_data # <<>>
                 THEN <<LineSeries(segment_data, "color", 0)>> ELSE <<>>
        ELSE LET end_idx == PivotHighScan(d, o, pivots, i, pivot_idx + 1)
                 dashed_end_idx == Min(pivot_idx + o.right_strength, end_idx)
                 dashed_segment_data ==
                     PivotHighSegmentData(d, pivot_price, pivot_idx, dashed_end_idx)
                 solid_segment_data ==
                     PivotHighSegmentData(d, pivot_price, dashed_end_idx, end_idx)
             IN  (IF dashed_segment_data # <<>>
                  THEN <<LineSeries(dashed_segment_data, "color", 1)>> ELSE <<>>)
                 \o (IF solid_segment_data # <<>>
                     THEN <<LineSeries(solid_segment_data, "color", 0)>> ELSE <<>>)

RECURSIVE PivotHighConfigs(_, _, _, _)
PivotHighConfigs(d, o, pivots, i) ==
    IF i >= Len(pivots) THEN <<>>
    ELSE PivotHighPivotConfigs(d, o, pivots, i) \o PivotHighConfigs(d, o, pivots, i + 1)

PivotHigh_get_series_configs(d, o) == PivotHighConfigs(d, o, o.pivot_high_indices, 0)

PivotHighCalculate ==
    /\ self.cls = "PivotHigh"
    /\ self' = PivotHighCalculatedObject(df, self)
    /\ cols' = PivotHighCalculatedCols(df, cols, self)
    /\ ret' = None
    /\ op' = "calculate"
    /\ UNCHANGED df

PivotHighGetSeriesConfigs ==
    /\ self.cls = "PivotHigh"
    /\ ret' = Returned("series", PivotHigh_get_series_configs(df, self))
    /\ op' = "get_series_configs"
    /\ UNCHANGED <<df, cols, self>>

----------------------------------------------------------------------------
(* SMAIndicator *)

\* a derived column named as the base column it is computed from
SMAColumnClose(o) == ColKey("close", 0, 0)

\* f'SMA_{self.period}'
SMAColumn(o) == ColKey("SMA", o.period, 0)

\* calculate() with a rolling mean that needs one observation only
SMACalculatedColsOneObservation(d, c, o) ==
    SetCol(c, SMAColumn(o), RollingMean(Column(d, "close"), o.period, 1))

\* the derived columns after calculate()
SMACalculatedCols(d, c, o) ==
    LET close == Column(d, "close")
        sma == RollingMean(close, o.period, o.period)
    IN  SetCol(c, SMAColumn(o), sma)

SMA_get_series_configs(c, o) ==
    <<LineSeries(NotNullRecords(c[SMAColumn(o)], 1), "color", NoStyle)>>

SMACalculate ==
    /\ self.cls = "SMA"
    /\ cols' = SMACalculatedCols(df, cols, self)
    /\ ret' = None
    /\ op' = "calculate"
    /\ UNCHANGED <<df, self>>

SMAGetSeriesConfigs ==
    /\ self.cls = "SMA"
    /\ ret' = IF HasCol(cols, SMAColumn(self))
              THEN Returned("series", SMA_get_series_configs(cols, self))
              ELSE KeyError
    /\ op' = "get_series_configs"
    /\ UNCHANGED <<df, cols, self>>

----------------------------------------------------------------------------
(* MACDIndicator *)

MACDColumn(name) == ColKey(name, 0, 0)

\* the derived columns after calculate()
MACDCalculatedCols(d, c, o) ==
    LET close == Column(d, "close")
        EMA_fast == ewm_mean(close, o.fast_period)
        EMA_slow == ewm_mean(close, o.slow_period)
        MACD == Array([t \in 1..Len(d) |-> FSub(EMA_fast[t], EMA_slow[t])], Len(d))
        MACD_signal == ewm_mean(MACD, o.signal_period)
        MACD_hist == Array([t \in 1..Len(d) |-> FSub(MACD[t], MACD_signal[t])], Len(d))
    IN  SetCol(SetCol(SetCol(SetCol(SetCol(c,
            MACDColumn("EMA_fast"), EMA_fast),
            MACDColumn("EMA_slow"), EMA_slow),
            MACDColumn("MACD"), MACD),
            MACDColumn("MACD_signal"), MACD_signal),
            MACDColumn("MACD_hist"), MACD_hist)

\* the histogram records: the colour is set on every row, then NaN rows are dropped
RECURSIVE MACDRecords(_, _)
MACDRecords(hist, t) ==
    IF t > Len(hist) THEN <<>>
    ELSE (IF notnull(hist[t])
          THEN <<[time |-> t - 1, value |-> hist[t],
                  color |-> IF FGe(hist[t], Float(0)) THEN "green" ELSE "red"]>>
          ELSE <<>>)
         \o MACDRecords(hist, t + 1)

MACD_pane(d, c, o) ==
    <<Series("Histogram", MACDRecords(c[MACDColumn("MACD_hist")], 1), "hist", NoStyle),
      LineSeries([t \in 1..Len(d) |-> [time |-> t - 1, value |-> Float(0)]], "zero", 1)>>

MACDCalculate ==
    /\ self.cls = "MACD"
    /\ cols' = MACDCalculatedCols(df, cols, self)
    /\ ret' = None
    /\ op' = "calculate"
    /\ UNCHANGED <<df, self>>

MACDPane ==
    /\ self.cls = "MACD"
    /\ ret' = IF HasCol(cols, MACDColumn("MACD_hist"))
              THEN Returned("pane", MACD_pane(df, cols, self))
              ELSE KeyError
    /\ op' = "pane"
    /\ UNCHANGED <<df, cols, self>>

----------------------------------------------------------------------------
(* RSIIndicator *)

\* the column is named RSI_14 whatever the window
RSIColumn == ColKey("RSI_14", 0, 0)

\* an RSI that is undefined whenever the average loss is zero
RSIValueUndefinedOnZeroLoss(avg_gain, avg_loss) ==
    IF avg_loss = Float(0) THEN NaN
    ELSE FSub(Float(100), FDiv(Float(100), FAdd(Float(1), FDiv(avg_gain, avg_loss))))

\* the RSI value from the two rolling means
RSIValue(avg_gain, avg_loss) ==
    LET rs == FDiv(avg_gain, avg_loss)
    IN  FSub(Float(100), FDiv(Float(100), FAdd(Float(1), rs)))

\* calculate() with a rolling mean that needs one observation only
RSICalculatedColsOneObservation(d, c, o) ==
    LET close == Column(d, "close")
        delta == Array(diff(close), Len(d))
        gain == Array(clip_lower0(delta), Len(d))
        clipped == Array(clip_upper0(delta), Len(d))
        loss == Array([t \in 1..Len(d) |-> FNeg(clipped[t])], Len(d))
        avg_gain == Array(RollingMean(gain, o.window, 1), Len(d))
        avg_loss == Array(RollingMean(loss, o.window, 1), Len(d))
    IN  SetCol(c, RSIColumn,
               Array([t \in 1..Len(d) |-> RSIValue(avg_gain[t], avg_loss[t])], Len(d)))

\* the derived columns after calculate()
RSICalculatedCols(d, c, o) ==
    LET close == Column(d, "close")
        delta == Array(diff(close), Len(d))
        gain == Array(clip_lower0(delta), Len(d))
        clipped == Array(clip_upper0(delta), Len(d))
        loss == Array([t \in 1..Len(d) |-> FNeg(clipped[t])], Len(d))
        avg_gain == Array(RollingMean(gain, o.window, o.window), Len(d))
        avg_loss == Array(RollingMean(loss, o.window, o.window), Len(d))
    IN  SetCol(c, RSIColumn,
               Array([t \in 1..Len(d) |-> RSIValue(avg_gain[t], avg_loss[t])], Len(d)))

RSI_pane(c, o) ==
    <<Series("Area", NotNullRecords(c[RSIColumn], 1), "lineColor", NoStyle)>>

RSICalculate ==
    /\ self.cls = "RSI"
    /\ cols' = RSICalculatedCols(df, cols, self)
    /\ ret' = None
    /\ op' = "calculate"
    /\ UNCHANGED <<df, self>>

RSIPane ==
    /\ self.cls = "RSI"
    /\ ret' = IF HasCol(cols, RSIColumn)
              THEN Returned("pane", RSI_pane(cols, self))
              ELSE KeyError
    /\ op' = "pane"
    /\ UNCHANGED <<df, cols, self>>

----------------------------------------------------------------------------
(* WilliamsRIndicator *)

WilliamsRColumn == ColKey("Williams_R", 0, 0)

\* -100 * (highest_high - close) / (highest_high - lowest_low)
WilliamsRValue(highest_high, lowest_low, close) ==
    FDiv(FMul(Float(-100), FSub(highest_high, close)), FSub(highest_high, lowest_low))

\* the derived columns after calculate()
WilliamsRCalculatedCols(d, c, o) ==
    LET high == Column(d, "high")
        low == Column(d, "low")
        close == Column(d, "close")
        highest_high == Array(RollingMax(high, o.period), Len(d))
        lowest_low == Array(RollingMin(low, o.period), Len(d))
    IN  SetCol(c, WilliamsRColumn,
               Array([t \in 1..Len(d) |->
                         WilliamsRValue(highest_high[t], lowest_low[t], close[t])],
                     Len(d)))

WilliamsR_pane(c, o) ==
    <<LineSeries(NotNullRecords(c[WilliamsRColumn], 1), "color", NoStyle)>>

WilliamsRCalculate ==
    /\ self.cls = "WilliamsR"
    /\ cols' = WilliamsRCalculatedCols(df, cols, self)
    /\ ret' = None
    /\ op' = "calculate"
    /\ UNCHANGED <<df, self>>

WilliamsRPane ==
    /\ self.cls = "WilliamsR"
    /\ ret' = IF HasCol(cols, WilliamsRColumn)
              THEN Returned("pane", WilliamsR_pane(cols, self))
              ELSE KeyError
    /\ op' = "pane"
    /\ UNCHANGED <<df, cols, self>>

----------------------------------------------------------------------------
(* VolumeIndicator *)

\* a colour rule under which an unchanged bar counts as down
VolumeColorStrict(open, close) ==
    IF open < close THEN "rgba(38,166,154,0.8)" ELSE "rgba(239,83,80,0.8)"

\* np.where(open <= close, "rgba(38,166,154,0.8)", "rgba(239,83,80,0.8)")
VolumeColor(open, close) ==
    IF open <= close THEN "rgba(38,166,154,0.8)" ELSE "rgba(239,83,80,0.8)"

volume_records(d) ==
    [t \in 1..Len(d) |-> [time |-> t - 1, value |-> Float(d[t].volume),
                          color |-> VolumeColor(d[t].open, d[t].close)]]

Volume_pane(d) ==
    <<Series("Histogram", volume_records(d), "rgba(38,166,154,0.8)", NoStyle)>>

\* calculate(): pass
VolumeCalculate ==
    /\ self.cls = "Volume"
    /\ ret' = None
    /\ op' = "calculate"
    /\ UNCHANGED <<df, cols, self>>

VolumePane ==
    /\ self.cls = "Volume"
    /\ ret' = Pane(Volume_pane(df), "Volume")
    /\ op' = "pane"
    /\ UNCHANGED <<df, cols, self>>

----------------------------------------------------------------------------
(* ChartTheme and ChartThemes (chart_themes.py) *)

\* ChartThemes.light()
ChartThemes_light ==
    [background_color |-> "#FFFFFF", text_color |-> "#000000",
     font_family |-> "Arial", font_size |-> 12,
     title_font_size |-> 14, title_font_family |-> "Arial", title_font_style |-> "normal",
     grid_vert_color |-> "#e1e3e8", grid_horz_color |-> "#e1e3e8",
     grid_lines_visible |-> TRUE,
     pane_separator_color |-> "#E0E3EB", pane_separator_hover_color |-> "#B2B5BE",
     enable_pane_resize |-> TRUE,
     price_scale_border_color |-> "#2B2B43", time_scale_border_color |-> "#2B2B43",
     up_color |-> "rgb(54,116,217)", down_color |-> "rgb(225,50,85)",
     volume_up_color |-> "rgba(38,166,154,0.8)", volume_down_color |-> "rgba(239,83,80,0.8)",
     primary_line_color |-> "rgba(0, 0, 255, 1)",
     secondary_line_color |-> "rgba(255, 140, 0, 0.8)",
     tertiary_line_color |-> "rgba(25, 118, 210, 0.8)",
     crosshair_vert_color |-> "rgba(0, 0, 255, 0.4)",
     crosshair_horz_color |-> "rgba(0, 0, 255, 0.4)",
     crosshair_vert_label_background |-> "rgba(0, 0, 255, 1)",
     crosshair_horz_label_background |-> "rgba(0, 0, 255, 1)",
     crosshair_mode |-> "normal",
     crosshair_vert_width |-> 2, crosshair_horz_width |-> 2,
     crosshair_vert_style |-> "dashed", crosshair_horz_style |-> "dashed"]

\* ChartThemes.dark(): the arguments that differ from those of light()
ChartThemes_dark ==
    [ChartThemes_light EXCEPT
        !.background_color = "#131722", !.text_color = "#D1D4DC",
        !.grid_vert_color = "#363C4E", !.grid_horz_color = "#363C4E",
        !.pane_separator_color = "#363A45", !.pane_separator_hover_color = "#787B86",
        !.crosshair_vert_color = "#9B7DFF", !.crosshair_horz_color = "#9B7DFF",
        !.crosshair_vert_label_background = "#9B7DFF",
        !.crosshair_horz_label_background = "#9B7DFF"]

\* ChartThemes.black()
ChartThemes_black ==
    [ChartThemes_light EXCEPT
        !.background_color = "#000000", !.text_color = "#FFFFFF",
        !.grid_vert_color = "#333333", !.grid_horz_color = "#333333",
        !.pane_separator_color = "#363636", !.pane_separator_hover_color = "#787878",
        !.crosshair_vert_color = "#9B7DFF", !.crosshair_horz_color = "#9B7DFF",
        !.crosshair_vert_label_background = "#9B7DFF",
        !.crosshair_horz_label_background = "#9B7DFF"]

\* ChartThemes.custom()
ChartThemes_custom ==
    [ChartThemes_light EXCEPT
        !.text_color = "rgba(0, 5, 175, 1.0)",
        !.font_family = "Patrick Hand SC", !.font_size = 14,
        !.title_font_size = 16, !.title_font_family = "Patrick Hand SC",
        !.title_font_style = "bold",
        !.grid_vert_color = "rgba(35, 157, 245, 0.4)",
        !.grid_horz_color = "rgba(35, 157, 245, 0.4)",
        !.pane_separator_color = "rgba(255,255,255,1.0)",
        !.pane_separator_hover_color = "rgba(255,235,59,0.5)",
        !.price_scale_border_color = "#fb7e6c", !.time_scale_border_color = "#fb7e6c",
        !.crosshair_vert_color = "#9B7DFF", !.crosshair_horz_color = "#9B7DFF",
        !.crosshair_vert_label_background = "#9B7DFF",
        !.crosshair_horz_label_background = "#9B7DFF"]

ThemeNames == {"Light", "Dark", "Black", "Custom"}

\* theme_options[selected_theme]
theme_options(name) ==
    CASE name = "Light" -> ChartThemes_light
      [] name = "Dark" -> ChartThemes_dark
      [] name = "Black" -> ChartThemes_black
      [] name = "Custom" -> ChartThemes_custom

line_style_map(style) ==
    CASE style = "solid" -> 0
      [] style = "dotted" -> 1
      [] style = "dashed" -> 2
      [] style = "large_dashed" -> 3
      [] style = "sparse_dotted" -> 4

\* ChartTheme.to_dict(): the dictionary literal, built anew on every call
to_dict(theme) ==
    [layout |-> [background |-> [color |-> theme.background_color],
                 textColor |-> theme.text_color,
                 fontFamily |-> theme.font_family,
                 fontSize |-> theme.font_size,
                 panes |-> [separatorColor |-> theme.pane_separator_color,
                            separatorHoverColor |-> theme.pane_separator_hover_color,
                            enableResize |-> theme.enable_pane_resize]],
     grid |-> [vertLines |-> [color |-> theme.grid_vert_color,
                              visible |-> theme.grid_lines_visible],
               horzLines |-> [color |-> theme.grid_horz_color,
                              visible |-> theme.grid_lines_visible]],
     titleOptions |-> [fontSize |-> theme.title_font_size,
                       fontFamily |-> theme.title_font_family,
                       fontStyle |-> theme.title_font_style],
     seriesColors |-> [upColor |-> theme.up_color,
                       downColor |-> theme.down_color,
                       volumeUpColor |-> theme.volume_up_color,
                       volumeDownColor |-> theme.volume_down_color],
     indicatorColors |-> [primary |-> theme.primary_line_color,
                          secondary |-> theme.secondary_line_color,
                          tertiary |-> theme.tertiary_line_color],
     crosshair |-> [mode |-> theme.crosshair_mode,
                    vertLine |-> [width |-> theme.crosshair_vert_width,
                                  color |-> theme.crosshair_vert_color,
                                  style |-> line_style_map(theme.crosshair_vert_style),
                                  labelBackgroundColor |->
                                      theme.crosshair_vert_label_background],
                    horzLine |-> [width |-> theme.crosshair_horz_width,
                                  color |-> theme.crosshair_horz_color,
                                  style |-> line_style_map(theme.crosshair_horz_style),
                                  labelBackgroundColor |->
                                      theme.crosshair_horz_label_background]],
     priceScale |-> [borderColor |-> theme.price_scale_border_color,
                     borderVisible |-> TRUE],
     timeScale |-> [borderColor |-> theme.time_scale_border_color,
                    borderVisible |-> TRUE],
     priceScaleBorderColor |-> theme.price_scale_border_color,
     timeScaleBorderColor |-> theme.time_scale_border_color]

\* the fields of the dataclass, in the order of their declaration
ChartThemeFields ==
    <<"background_color", "text_color", "font_family", "font_size",
      "title_font_size", "title_font_family", "title_font_style",
      "grid_vert_color", "grid_horz_color", "grid_lines_visible",
      "pane_separator_color", "pane_separator_hover_color", "enable_pane_resize",
      "price_scale_border_color", "time_scale_border_color",
      "up_color", "down_color", "volume_up_color", "volume_down_color",
      "primary_line_color", "secondary_line_color", "tertiary_line_color",
      "crosshair_vert_color", "crosshair_horz_color",
      "crosshair_vert_label_background", "crosshair_horz_label_background",
      "crosshair_mode", "crosshair_vert_width", "crosshair_horz_width",
      "crosshair_vert_style", "crosshair_horz_style">>

\* repr() of a field value: an int, a bool or a str
FieldRepr(field, value) ==
    IF field \in {"font_size", "title_font_size", "crosshair_vert_width",
                  "crosshair_horz_width"}
    THEN ToString(value)
    ELSE IF field \in {"grid_lines_visible", "enable_pane_resize"}
    THEN (IF value THEN "True" ELSE "False")
    ELSE "'" \o value \o "'"

\* "field=value, field=value, ..." of the fields k..
RECURSIVE FieldsRepr(_, _)
FieldsRepr(theme, k) ==
    IF k > Len(ChartThemeFields) THEN ""
    ELSE (IF k > 1 THEN ", " ELSE "")
         \o ChartThemeFields[k] \o "=" \o FieldRepr(ChartThemeFields[k], theme[ChartThemeFields[k]])
         \o FieldsRepr(theme, k + 1)

\* str(theme): the repr the dataclass generates
theme_str(theme) == "ChartTheme(" \o FieldsRepr(theme, 1) \o ")"

\* str.lower() of one character
LowerChar(ch) ==
    LET upper == "ABCDEFGHIJKLMNOPQRSTUVWXYZ"
        lower == "abcdefghijklmnopqrstuvwxyz"
    IN  IF \E k \in 1..26 : SubSeq(upper, k, k) = ch
        THEN LET k == CHOOSE k \in 1..26 : SubSeq(upper, k, k) = ch
             IN  SubSeq(lower, k, k)
        ELSE ch

\* word in text.lower(), for a word in lower case
InLower(word, text) ==
    \E i \in 1..(Len(text) - Len(word) + 1) :
        \A k \in 1..Len(word) :
            LowerChar(SubSeq(text, i + k - 1, i + k - 1)) = SubSeq(word, k, k)

\* "dark" in str(self.theme).lower() or "black" in str(self.theme).lower()
is_dark_theme(theme) ==
    InLower("dark", theme_str(theme)) \/ InLower("black", theme_str(theme))

\* The objects of a run: self.themes are the ChartTheme objects the factories
\* returned (with the name they were resolved from), self.heap the dictionary
\* objects to_dict() returned, and self.refs one entry per to_dict() call: the
\* theme object it was called on, the dictionary object it returned and the
\* change its caller made to that dictionary since ("" for none).
NewThemes == [cls |-> "Themes", themes |-> <<>>, heap |-> <<>>, refs |-> <<>>]

\* a to_dict() that hands out the dictionary it built before for the same theme
DictObjectShared(o, t) ==
    IF \E r \in 1..Len(o.refs) : o.refs[r].theme = t
    THEN o.refs[CHOOSE r \in 1..Len(o.refs) : o.refs[r].theme = t].id
    ELSE Len(o.heap) + 1

\* the dictionary object to_dict() returns: `return {...}` makes a new one
DictObject(o, t) == Len(o.heap) + 1

\* the heap once the dictionary object `id` holds `config`
StoreDict(heap, id, config) ==
    [k \in 1..Max(Len(heap), id) |-> IF k = id THEN config ELSE heap[k]]

\* chart_config["timeScale"] = {"visible": False}, as the oscillator panes do,
\* or config["layout"]["textColor"] = ..., a change by the caller
MutatedDict(config, key) ==
    IF key = "timeScale"
    THEN [config EXCEPT !.timeScale = [visible |-> FALSE]]
    ELSE [config EXCEPT !.layout.textColor = "changed"]

\* theme = theme_options[name]
ThemeResolve ==
    /\ self.cls = "Themes"
    /\ Len(self.themes) < MaxThemes
    /\ \E name \in ThemeNames :
         /\ self' = [self EXCEPT !.themes = Append(@, [name |-> name,
                                                       theme |-> theme_options(name)])]
         /\ ret' = [kind |-> "theme", series |-> <<>>, id |-> Len(self.themes) + 1]
    /\ op' = "resolve"
    /\ UNCHANGED <<df, cols>>

\* config = theme.to_dict()
ThemeToDict ==
    /\ self.cls = "Themes"
    /\ Len(self.refs) < MaxDicts
    /\ \E t \in 1..Len(self.themes) :
         LET id == DictObject(self, t)
         IN  /\ self' = [self EXCEPT
                           !.heap = StoreDict(@, id, to_dict(self.themes[t].theme)),
                           !.refs = Append(@, [theme |-> t, id |-> id, changed |-> ""])]
             /\ ret' = [kind |-> "dict", series |-> <<>>, id |-> id]
    /\ op' = "to_dict"
    /\ UNCHANGED <<df, cols>>

\* the caller of one to_dict() changes the dictionary it was given
DictMutate ==
    /\ self.cls = "Themes"
    /\ \E r \in 1..Len(self.refs), key \in {"timeScale", "textColor"} :
         /\ self.refs[r].changed = ""
         /\ self' = [self EXCEPT
                       !.heap[self.refs[r].id] = MutatedDict(@, key),
                       !.refs[r].changed = key]
    /\ ret' = None
    /\ op' = "mutate"
    /\ UNCHANGED <<df, cols>>

----------------------------------------------------------------------------
(* PriceIndicator, of the library ("lib") and of the demo ("demo") *)

\* __init__: the demo takes rectangles, the library does not (always empty)
NewPriceIndicator(impl, style, overlays, markers, rectangles) ==
    [cls |-> "Price", impl |-> impl, style |-> style, overlays |-> overlays,
     markers |-> markers, rectangles |-> rectangles, title |-> "Title"]

IndexError == Returned("IndexError", <<>>)

\* overlay.calculate(): the overlay object afterwards
OverlayCalculatedObject(d, o) ==
    CASE o.cls = "AVWAP" -> AVWAPCalculatedObject(d, o)
      [] o.cls = "PivotHigh" -> PivotHighCalculatedObject(d, o)
      [] OTHER -> o

\* overlay.calculate(): the derived columns afterwards
OverlayCalculatedCols(d, c, o) ==
    CASE o.cls = "AVWAP" -> AVWAPCalculatedCols(d, c, o)
      [] o.cls = "PivotHigh" -> PivotHighCalculatedCols(d, c, o)
      [] o.cls = "SMA" -> SMACalculatedCols(d, c, o)

\* for overlay in self.overlays: overlay.calculate()
RECURSIVE PriceCalculatedCols(_, _, _)
PriceCalculatedCols(d, c, overlays) ==
    IF overlays = <<>> THEN c
    ELSE PriceCalculatedCols(d, OverlayCalculatedCols(d, c, Head(overlays)), Tail(overlays))

PriceCalculatedObject(d, o) ==
    [o EXCEPT !.overlays = [k \in 1..Len(o.overlays) |->
                               OverlayCalculatedObject(d, o.overlays[k])]]

\* overlay.get_series_configs() raises KeyError on a missing column
OverlayRaises(c, o) == o.cls = "SMA" /\ ~HasCol(c, SMAColumn(o))

Overlay_get_series_configs(d, c, o) ==
    CASE o.cls = "AVWAP" -> AVWAP_get_series_configs(d, c, o)
      [] o.cls = "PivotHigh" -> PivotHigh_get_series_configs(d, o)
      [] o.cls = "SMA" -> SMA_get_series_configs(c, o)

\* a loop that draws the overlays last to first
RECURSIVE OverlayConfigsReversed(_, _, _)
OverlayConfigsReversed(d, c, overlays) ==
    IF overlays = <<>> THEN <<>>
    ELSE OverlayConfigsReversed(d, c, Tail(overlays))
         \o Overlay_get_series_configs(d, c, Head(overlays))

\* for overlay in self.overlays: series_configs.extend(overlay.get_series_configs())
RECURSIVE OverlayConfigs(_, _, _)
OverlayConfigs(d, c, overlays) ==
    IF overlays = <<>> THEN <<>>
    ELSE Overlay_get_series_configs(d, c, Head(overlays))
         \o OverlayConfigs(d, c, Tail(overlays))

price_records(d) ==
    [t \in 1..Len(d) |-> [time |-> t - 1, open |-> Float(d[t].open),
                          high |-> Float(d[t].high), low |-> Float(d[t].low),
                          close |-> Float(d[t].close)]]

line_data(d) == [t \in 1..Len(d) |-> [time |-> t - 1, value |-> Float(d[t].close)]]

\* Indicator.__init__: self.theme = theme
WithTheme(o, theme) == [theme |-> theme] @@ o

\* _get_performance_colors(is_dark_theme): the line colour of the pair (the
\* top and bottom colours are the same colour at opacity 0.4 and 0.1)
_get_performance_colors(d, dark) ==
    LET first_close == Float(d[1].close)
        last_close == Float(d[Len(d)].close)
        performance == FMul(FSub(FDiv(last_close, first_close), Float(1)), Float(100))
        is_bullish == FGe(performance, Float(0))
    IN  IF is_bullish
        THEN (IF dark THEN "rgba(76, 175, 80, 1)" ELSE "rgba(0, 128, 0, 1)")
        ELSE (IF dark THEN "rgba(255, 82, 82, 1)" ELSE "rgba(178, 34, 34, 1)")

\* the base series_config of a style; the Area style is the demo's
PriceSeriesConfig(d, o) ==
    IF o.style = "Area"
    THEN Series("Area", line_data(d),
                _get_performance_colors(d, is_dark_theme(o.theme)), NoStyle)
    ELSE IF o.style = "Line"
    THEN Series("Line", line_data(d), "primary_line_color", NoStyle)
    ELSE Series(o.style, price_records(d), "upColor", NoStyle)

\* two digits of a number below 100
TwoDigits(k) == IF k < 10 THEN "0" \o ToString(k) ELSE ToString(k)

\* format(x, ".2f"): the sign, then the magnitude rounded to hundredths, ties
\* to even; "inf", "-inf" and "nan" for the values that are not finite
Format2f(x) ==
    IF IsNaN(x) THEN "nan"
    ELSE IF x = Inf THEN "inf"
    ELSE IF x = NegInf THEN "-inf"
    ELSE LET num == Abs(x[1]) * 100
             q == num \div x[2]
             r == num % x[2]
             hundredths == IF 2 * r > x[2] \/ (2 * r = x[2] /\ q % 2 = 1)
                           THEN q + 1 ELSE q
         IN  (IF x[1] < 0 THEN "-" ELSE "")
             \o ToString(hundredths \div 100) \o "." \o TwoDigits(hundredths % 100)

\* ((last_close - prev_close) / prev_close) * 100
pct_change(d) ==
    LET last_close == Float(d[Len(d)].close)
        prev_close == Float(d[Len(d) - 1].close)
    IN  FMul(FDiv(FSub(last_close, prev_close), prev_close), Float(100))

\* a suffix that always carries the sign "+"
pct_change_str_plus(d) == " (+" \o Format2f(pct_change(d)) \o "%)"

\* f" ({'+' if pct_change >= 0 else ''}{pct_change:.2f}%)"
pct_change_str(d) ==
    " (" \o (IF FGe(pct_change(d), Float(0)) THEN "+" ELSE "")
         \o Format2f(pct_change(d)) \o "%)"

\* markers and rectangles set on every descriptor
AttachToAll(o, series_configs) ==
    [k \in 1..Len(series_configs) |->
        (IF o.markers # <<>> THEN [markers |-> o.markers] ELSE <<>>)
        @@ (IF o.rectangles # <<>> THEN [rectangles |-> o.rectangles] ELSE <<>>)
        @@ series_configs[k]]

\* series_configs[0]["markers"] = self.markers, and the same for rectangles
Attach(o, series_configs) ==
    [series_configs EXCEPT ![1] =
        (IF o.markers # <<>> THEN [markers |-> o.markers] ELSE <<>>)
        @@ (IF o.rectangles # <<>> THEN [rectangles |-> o.rectangles] ELSE <<>>)
        @@ series_configs[1]]

\* the pane of the library: iloc[-1] and iloc[-2] are read without a guard
LibPricePane(d, c, o) ==
    IF ~HasBaseColumn(d, "close") THEN KeyError
    ELSE IF Len(d) < 2 THEN IndexError
    ELSE IF \E k \in 1..Len(o.overlays) : OverlayRaises(c, o.overlays[k]) THEN KeyError
    ELSE Pane(Attach(o, <<PriceSeriesConfig(d, o)>> \o OverlayConfigs(d, c, o.overlays)),
              o.title \o pct_change_str(d))

\* the pane of the demo: price_data['time'].iloc[0] needs a bar, and the
\* percentage is computed under try/except IndexError
DemoPricePane(d, c, o) ==
    IF ~HasBaseColumn(d, "close") THEN KeyError
    ELSE IF Len(d) < 1 THEN IndexError
    ELSE IF \E k \in 1..Len(o.overlays) : OverlayRaises(c, o.overlays[k]) THEN KeyError
    ELSE Pane(Attach(o, <<PriceSeriesConfig(d, o)>> \o OverlayConfigs(d, c, o.overlays)),
              o.title \o (IF Len(d) < 2 THEN "" ELSE pct_change_str(d)))

PriceCalculate ==
    /\ self.cls = "Price"
    /\ self' = PriceCalculatedObject(df, self)
    /\ cols' = PriceCalculatedCols(df, cols, self.overlays)
    /\ ret' = None
    /\ op' = "calculate"
    /\ UNCHANGED df

PricePane ==
    /\ self.cls = "Price"
    /\ ret' = IF self.impl = "lib" THEN LibPricePane(df, cols, self)
                                   ELSE DemoPricePane(df, cols, self)
    /\ op' = "pane"
    /\ UNCHANGED <<df, cols, self>>

----------------------------------------------------------------------------
(* Several indicators constructed on one DataFrame *)

\* indicator.calculate(): the derived columns of the shared DataFrame afterwards
IndicatorCalculatedCols(d, c, o) ==
    CASE o.cls = "RSI" -> RSICalculatedCols(d, c, o)
      [] o.cls = "MACD" -> MACDCalculatedCols(d, c, o)
      [] o.cls = "WilliamsR" -> WilliamsRCalculatedCols(d, c, o)
      [] o.cls = "Volume" -> c
      [] o.cls = "Price" -> PriceCalculatedCols(d, c, o.overlays)
      [] OTHER -> OverlayCalculatedCols(d, c, o)

\* indicator.calculate(): the indicator object afterwards
IndicatorCalculatedObject(d, o) ==
    IF o.cls = "Price" THEN PriceCalculatedObject(d, o) ELSE OverlayCalculatedObject(d, o)

\* indicator.pane() or overlay.get_series_configs()
IndicatorReturn(d, c, o) ==
    CASE o.cls = "RSI" -> IF HasCol(c, RSIColumn)
                          THEN Returned("pane", RSI_pane(c, o)) ELSE KeyError
      [] o.cls = "MACD" -> IF HasCol(c, MACDColumn("MACD_hist"))
                           THEN Returned("pane", MACD_pane(d, c, o)) ELSE KeyError
      [] o.cls = "WilliamsR" -> IF HasCol(c, WilliamsRColumn)
                                THEN Returned("pane", WilliamsR_pane(c, o)) ELSE KeyError
      [] o.cls = "Volume" -> Pane(Volume_pane(d), "Volume")
      [] o.cls = "Price" -> IF o.impl = "lib" THEN LibPricePane(d, c, o)
                                              ELSE DemoPricePane(d, c, o)
      [] OTHER -> IF OverlayRaises(c, o) THEN KeyError
                  ELSE Returned("series", Overlay_get_series_configs(d, c, o))

\* the indicators of a run, all holding the same df object, and the ones whose
\* calculate() the caller has run
NewShared(indicators) == [cls |-> "Shared", indicators |-> indicators, calculated |-> {}]

\* indicators[k].calculate()
SharedCalculate ==
    /\ self.cls = "Shared"
    /\ \E k \in 1..Len(self.indicators) :
         /\ self' = [self EXCEPT
                       !.indicators[k] = OverlayCalculatedObject(df, @),
                       !.calculated = @ \cup {k}]
         /\ cols' = IndicatorCalculatedCols(df, cols, self.indicators[k])
    /\ ret' = None
    /\ op' = "calculate"
    /\ UNCHANGED df

\* indicators[k].pane() or indicators[k].get_series_configs()
SharedReturn ==
    /\ self.cls = "Shared"
    /\ \E k \in 1..Len(self.indicators) :
         ret' = [of |-> k] @@ IndicatorReturn(df, cols, self.indicators[k])
    /\ op' = "pane"
    /\ UNCHANGED <<df, cols, self>>

----------------------------------------------------------------------------
(* The panes of one chart: indicators on one DataFrame and one theme object *)

\* a get_chart_config() that keeps the dictionary of the theme for later calls
get_chart_config_cached(o, t) == DictObjectShared(o, t)

\* return self.theme.to_dict(): the dictionary object the pane works on
get_chart_config(o, t) == DictObject(o, t)

\* the classes whose pane() sets chart_config["timeScale"] = {"visible": False}
HidesTimeScale(o) == o.cls \in {"MACD", "RSI", "WilliamsR"}

\* the classes with a pane(): the subclasses of Indicator
HasPane(o) == o.cls \in {"Price", "Volume", "MACD", "RSI", "WilliamsR"}

\* self.themes[1] is the theme object every indicator was given, self.heap the
\* dictionaries to_dict() returned and self.refs the panes returned so far:
\* the indicator, the dictionary under "chart" and the change pane() made to it
NewPanes(name, indicators) ==
    [cls |-> "Panes", themes |-> <<[name |-> name, theme |-> theme_options(name)]>>,
     indicators |-> indicators, calculated |-> {}, heap |-> <<>>, refs |-> <<>>]

\* indicators[k].calculate()
PanesCalculate ==
    /\ self.cls = "Panes"
    /\ \E k \in 1..Len(self.indicators) :
         /\ self' = [self EXCEPT
                       !.indicators[k] = IndicatorCalculatedObject(df, @),
                       !.calculated = @ \cup {k}]
         /\ cols' = IndicatorCalculatedCols(df, cols, self.indicators[k])
    /\ ret' = None
    /\ op' = "calculate"
    /\ UNCHANGED df

\* indicators[k].pane(): the series are built first, then the chart config is
\* taken from the theme and, in the oscillator panes, its timeScale replaced
PanesPane ==
    /\ self.cls = "Panes"
    /\ Len(self.refs) < MaxDicts
    /\ \E k \in 1..Len(self.indicators) :
         LET o == self.indicators[k]
             returned == IndicatorReturn(df, cols, o)
             id == get_chart_config(self, 1)
             config == to_dict(self.themes[1].theme)
             chart_config == IF HidesTimeScale(o) THEN MutatedDict(config, "timeScale")
                             ELSE config
         IN  /\ HasPane(o)
             /\ IF returned.kind = "pane"
                THEN /\ self' = [self EXCEPT
                                   !.heap = StoreDict(@, id, chart_config),
                                   !.refs = Append(@, [theme |-> 1, id |-> id, of |-> k,
                                                       changed |-> IF HidesTimeScale(o)
                                                                   THEN "timeScale"
                                                                   ELSE ""])]
                     /\ ret' = [of |-> k, chart |-> id] @@ returned
                ELSE /\ self' = self
                     /\ ret' = [of |-> k, chart |-> 0] @@ returned
    /\ op' = "pane"
    /\ UNCHANGED <<df, cols>>

\* indicators[k].get_series_configs() of an overlay
PanesGetSeriesConfigs ==
    /\ self.cls = "Panes"
    /\ \E k \in 1..Len(self.indicators) :
         /\ ~HasPane(self.indicators[k])
         /\ ret' = [of |-> k, chart |-> 0] @@ IndicatorReturn(df, cols, self.indicators[k])
    /\ op' = "get_series_configs"
    /\ UNCHANGED <<df, cols, self>>

----------------------------------------------------------------------------
(* Bar sequences and the pivot-overlay specification *)

Bar(o, h, l, c, v) == [open |-> o, high |-> h, low |-> l, close |-> c, volume |-> v]

\* all sequences over S of length 0..n
SeqsUpTo(S, n) == UNION {[1..k -> S] : k \in 0..n}

Strengths == 0..MaxStrength

\* three price levels: every strict or tied ordering of three consecutive bars
PriceLevels == {1, 2, 3}

\* the low that goes with the h-th high level: a cyclic shift, so that the low
\* column ranges over every sequence of levels as the high column does, with
\* its extrema at other rows, and low <= high in every bar
LowOf(h) == (h % Cardinality(PriceLevels)) + 1

HighOf(h) == Cardinality(PriceLevels) + h

\* bars for pivot detection: open = close = low, one unit of volume
PivotBars == {Bar(LowOf(h), HighOf(h), LowOf(h), LowOf(h), 1) : h \in PriceLevels}

\* AVWAPIndicator(df, L, R) / PivotHighIndicator(df, L, R): __init__ ends with calculate()
InitPivot ==
    /\ df \in SeqsUpTo(PivotBars, MaxN)
    /\ \E cls \in {"AVWAP", "PivotHigh"}, L \in Strengths, R \in Strengths :
         LET o == [NewObject(cls) EXCEPT !.left_strength = L, !.right_strength = R]
         IN  IF cls = "AVWAP"
             THEN /\ self = AVWAPCalculatedObject(df, o)
                  /\ cols = AVWAPCalculatedCols(df, NoCols, o)
             ELSE /\ self = PivotHighCalculatedObject(df, o)
                  /\ cols = PivotHighCalculatedCols(df, NoCols, o)
    /\ ret = None
    /\ op = "__init__"

NextPivot ==
    \/ AVWAPCalculate
    \/ AVWAPGetSeriesConfigs
    \/ PivotHighCalculate
    \/ PivotHighGetSeriesConfigs

SpecPivot == InitPivot /\ [][NextPivot]_vars

----------------------------------------------------------------------------
(* Specification of the PivotHigh overlay on bars whose close may exceed an
   earlier high, in both modes *)

\* bars (open, high, low, close, volume): the last one closes above its own high
PivotHighBars ==
    {Bar(1, 1, 1, 1, 1), Bar(1, 2, 1, 1, 1), Bar(3, 3, 1, 3, 1), Bar(3, 1, 1, 3, 1)}

\* PivotHighIndicator(df, left_strength, right_strength, realistic_mode):
\* __init__ ends with calculate()
InitPivotHigh ==
    /\ df \in SeqsUpTo(PivotHighBars, MaxRayN)
    /\ \E L \in Strengths, R \in Strengths, realistic_mode \in BOOLEAN :
         LET o == [NewObject("PivotHigh") EXCEPT !.left_strength = L,
                                                 !.right_strength = R,
                                                 !.realistic_mode = realistic_mode]
         IN  /\ self = PivotHighCalculatedObject(df, o)
             /\ cols = PivotHighCalculatedCols(df, NoCols, o)
    /\ ret = None
    /\ op = "__init__"

NextPivotHigh == PivotHighCalculate \/ PivotHighGetSeriesConfigs

SpecPivotHigh == InitPivotHigh /\ [][NextPivotHigh]_vars

----------------------------------------------------------------------------
(* Specification of the AVWAP overlay on bars with volumes, in both modes *)

\* bars (open, high, low, close, volume): two that trade and two that do not,
\* with ties among the highs and among the lows
AVWAPBars ==
    {Bar(1, 6, 1, 1, 1), Bar(2, 4, 2, 2, 2), Bar(2, 5, 2, 2, 0), Bar(3, 4, 3, 3, 0)}

\* AVWAPIndicator(df, left_strength, right_strength, realistic_mode): __init__
\* ends with calculate()
InitAVWAP ==
    /\ df \in SeqsUpTo(AVWAPBars, MaxVolumeN)
    /\ \E L \in Strengths, R \in Strengths, realistic_mode \in BOOLEAN :
         LET o == [NewObject("AVWAP") EXCEPT !.left_strength = L,
                                             !.right_strength = R,
                                             !.realistic_mode = realistic_mode]
         IN  /\ self = AVWAPCalculatedObject(df, o)
             /\ cols = AVWAPCalculatedCols(df, NoCols, o)
    /\ ret = None
    /\ op = "__init__"

NextAVWAP == AVWAPCalculate \/ AVWAPGetSeriesConfigs

SpecAVWAP == InitAVWAP /\ [][NextAVWAP]_vars

----------------------------------------------------------------------------
(* Specification of the two pivot overlays, each on its own bars, in both modes *)

InitPivotOverlays == InitAVWAP \/ InitPivotHigh

NextPivotOverlays ==
    \/ AVWAPCalculate
    \/ AVWAPGetSeriesConfigs
    \/ PivotHighCalculate
    \/ PivotHighGetSeriesConfigs

SpecPivotOverlays == InitPivotOverlays /\ [][NextPivotOverlays]_vars

----------------------------------------------------------------------------
(* Specification of the price pane with its overlays *)

\* closes 0, 19, 20 and 21: changes of +5.00% and -5.00%, roundings up and
\* down, and a previous close of 0
PriceBars == {Bar(c, c, c, c, 1) : c \in {0, 19, 20, 21}}

SMAOverlay == [NewObject("SMA") EXCEPT !.period = 2]

PivotHighOverlay == [NewObject("PivotHigh") EXCEPT !.right_strength = 1]

\* the overlays are built on the same df before the PriceIndicator is; a
\* PivotHighIndicator has run calculate() in its __init__, an SMAIndicator has not
PriceOverlayLists(d) ==
    SeqsUpTo({SMAOverlay, PivotHighCalculatedObject(d, PivotHighOverlay)}, 2)

Markers == {<<>>, <<"marker">>}

Rectangles == {<<>>, <<"rectangle">>}

\* PriceIndicator(df, title, style, overlays, markers[, rectangles])
InitPrice ==
    /\ df \in SeqsUpTo(PriceBars, MaxPriceN)
    /\ \E impl \in {"lib", "demo"}, style \in {"Candlestick", "Line"},
          markers \in Markers, rectangles \in Rectangles :
         \E overlays \in PriceOverlayLists(df) :
            /\ impl = "lib" => rectangles = <<>>
            /\ self = NewPriceIndicator(impl, style, overlays, markers, rectangles)
            /\ cols = IF \E k \in 1..Len(overlays) : overlays[k].cls = "PivotHigh"
                      THEN PivotHighCalculatedCols(df, NoCols, PivotHighOverlay)
                      ELSE NoCols
    /\ ret = None
    /\ op = "__init__"

NextPrice == PriceCalculate \/ PricePane

SpecPrice == InitPrice /\ [][NextPrice]_vars

----------------------------------------------------------------------------
(* Specifications of the indicators that compute on calculate() only *)

Periods == 1..MaxPeriod

Spans == 1..MaxSpan

\* bars of which only the close matters: open = high = low = close
CloseBars == {Bar(c, c, c, c, 1) : c \in PriceLevels}

\* the object and the DataFrame right after __init__: no derived column yet
Constructed(o) ==
    /\ self = o
    /\ cols = NoCols
    /\ ret = None
    /\ op = "__init__"

\* SMAIndicator(df, period)
InitSMA ==
    /\ df \in SeqsUpTo(CloseBars, MaxN)
    /\ \E period \in Periods : Constructed([NewObject("SMA") EXCEPT !.period = period])

NextSMA == SMACalculate \/ SMAGetSeriesConfigs

SpecSMA == InitSMA /\ [][NextSMA]_vars

\* RSIIndicator(df, window=period)
InitRSI ==
    /\ df \in SeqsUpTo(CloseBars, MaxN)
    /\ \E window \in Periods : Constructed([NewObject("RSI") EXCEPT !.window = window])

NextRSI == RSICalculate \/ RSIPane

SpecRSI == InitRSI /\ [][NextRSI]_vars

\* MACDIndicator(df, fast_period, slow_period, signal_period)
InitMACD ==
    /\ df \in SeqsUpTo(CloseBars, MaxN)
    /\ \E fast \in Spans, slow \in Spans, signal \in Spans :
         Constructed([NewObject("MACD") EXCEPT !.fast_period = fast,
                                               !.slow_period = slow,
                                               !.signal_period = signal])

NextMACD == MACDCalculate \/ MACDPane

SpecMACD == InitMACD /\ [][NextMACD]_vars

\* bars for Williams %R: a flat bar (high = low) whose close is on, below or
\* above that price, and two bars with a range
WilliamsRBars ==
    {Bar(2, 2, 2, 2, 1), Bar(1, 2, 2, 1, 1), Bar(3, 2, 2, 3, 1),
     Bar(2, 3, 1, 2, 1), Bar(3, 3, 2, 3, 1)}

\* WilliamsRIndicator(df, period)
InitWilliamsR ==
    /\ df \in SeqsUpTo(WilliamsRBars, MaxN)
    /\ \E period \in Periods :
         Constructed([NewObject("WilliamsR") EXCEPT !.period = period])

NextWilliamsR == WilliamsRCalculate \/ WilliamsRPane

SpecWilliamsR == InitWilliamsR /\ [][NextWilliamsR]_vars

----------------------------------------------------------------------------
(* Specification of repeated calculate() calls, over every indicator *)

AVWAPOverlay == [NewObject("AVWAP") EXCEPT !.right_strength = 1]

\* an overlay right after its __init__: the pivot overlays have run calculate()
ConstructedOverlay(d, o) ==
    IF o.cls \in {"AVWAP", "PivotHigh"} THEN OverlayCalculatedObject(d, o) ELSE o

\* the derived columns after the __init__ of each overlay of a list, in order
RECURSIVE ConstructedOverlayCols(_, _, _)
ConstructedOverlayCols(d, c, overlays) ==
    IF overlays = <<>> THEN c
    ELSE ConstructedOverlayCols(d,
             IF Head(overlays).cls \in {"AVWAP", "PivotHigh"}
             THEN OverlayCalculatedCols(d, c, Head(overlays))
             ELSE c,
             Tail(overlays))

\* the indicators as they are constructed: parameters of the indicators that
\* compute on calculate() only
CalculateOnlyObjects ==
    {[NewObject("SMA") EXCEPT !.period = period] : period \in Periods}
    \cup {[NewObject("RSI") EXCEPT !.window = window] : window \in Periods}
    \cup {[NewObject("WilliamsR") EXCEPT !.period = period] : period \in Periods}
    \cup {[NewObject("MACD") EXCEPT !.fast_period = fast, !.slow_period = slow,
                                    !.signal_period = signal] :
             fast \in Spans, slow \in Spans, signal \in Spans}

\* the overlays whose __init__ ends with calculate()
PivotObjects ==
    {[NewObject(cls) EXCEPT !.left_strength = L, !.right_strength = R,
                            !.realistic_mode = realistic_mode] :
        cls \in {"AVWAP", "PivotHigh"}, L \in Strengths, R \in Strengths,
        realistic_mode \in BOOLEAN}

\* PriceIndicator(df, overlays=[...]) of the library and of the demo
PriceObjects ==
    {NewPriceIndicator(impl, "Candlestick", overlays, <<>>, <<>>) :
        impl \in {"lib", "demo"},
        overlays \in SeqsUpTo({SMAOverlay, PivotHighOverlay, AVWAPOverlay}, 2)}

InitCalculate ==
    /\ df \in SeqsUpTo(AVWAPBars, MaxPriceN)
    /\ \/ \E o \in CalculateOnlyObjects : Constructed(o)
       \/ \E o \in PivotObjects :
            /\ self = OverlayCalculatedObject(df, o)
            /\ cols = OverlayCalculatedCols(df, NoCols, o)
       \/ \E o \in PriceObjects :
            /\ self = [o EXCEPT !.overlays = [k \in 1..Len(o.overlays) |->
                                                ConstructedOverlay(df, o.overlays[k])]]
            /\ cols = ConstructedOverlayCols(df, NoCols, o.overlays)
    /\ ret = None
    /\ op = "__init__"

NextCalculate ==
    \/ SMACalculate
    \/ SMAGetSeriesConfigs
    \/ RSICalculate
    \/ RSIPane
    \/ MACDCalculate
    \/ MACDPane
    \/ WilliamsRCalculate
    \/ WilliamsRPane
    \/ AVWAPCalculate
    \/ AVWAPGetSeriesConfigs
    \/ PivotHighCalculate
    \/ PivotHighGetSeriesConfigs
    \/ PriceCalculate
    \/ PricePane

SpecCalculate == InitCalculate /\ [][NextCalculate]_vars

----------------------------------------------------------------------------
(* Specification of two indicators on the same bars *)

\* two RSI windows, two MACD configurations, AVWAP(0, 1) in both modes, an SMA
SharedIndicators ==
    {[NewObject("RSI") EXCEPT !.window = 1], [NewObject("RSI") EXCEPT !.window = 2],
     [NewObject("MACD") EXCEPT !.fast_period = 1, !.slow_period = 2, !.signal_period = 1],
     [NewObject("MACD") EXCEPT !.fast_period = 2, !.slow_period = 1, !.signal_period = 1],
     AVWAPOverlay, [AVWAPOverlay EXCEPT !.realistic_mode = TRUE], SMAOverlay}

\* a = A(df, ...); b = B(df, ...): the pivot overlays calculate in __init__
InitShared ==
    /\ df \in SeqsUpTo(AVWAPBars, MaxPriceN)
    /\ \E a \in SharedIndicators, b \in SharedIndicators :
         /\ a # b
         /\ self = NewShared(<<ConstructedOverlay(df, a), ConstructedOverlay(df, b)>>)
         /\ cols = ConstructedOverlayCols(df, NoCols, <<a, b>>)
    /\ ret = None
    /\ op = "__init__"

NextShared == SharedCalculate \/ SharedReturn

SpecShared == InitShared /\ [][NextShared]_vars

----------------------------------------------------------------------------
(* Specification of the panes of one chart *)

\* a price pane with a pivot overlay, the volume pane, the three oscillators and
\* two overlays asked for their series directly
PaneIndicators ==
    <<NewPriceIndicator("lib", "Candlestick", <<AVWAPOverlay>>, <<>>, <<>>),
      NewObject("Volume"),
      [NewObject("MACD") EXCEPT !.fast_period = 1, !.slow_period = 2, !.signal_period = 1],
      [NewObject("RSI") EXCEPT !.window = 2],
      [NewObject("WilliamsR") EXCEPT !.period = 2],
      [PivotHighOverlay EXCEPT !.realistic_mode = TRUE],
      SMAOverlay>>

\* a falling and a rising bar (open, high, low, close, volume)
PaneBars == {Bar(2, 6, 1, 1, 1), Bar(2, 4, 2, 3, 2)}

\* an indicator right after its __init__
ConstructedIndicator(d, o) ==
    IF o.cls = "Price"
    THEN [o EXCEPT !.overlays = [k \in 1..Len(o.overlays) |->
                                    ConstructedOverlay(d, o.overlays[k])]]
    ELSE ConstructedOverlay(d, o)

\* the overlays constructed for a list of indicators, in order
RECURSIVE ConstructedOverlays(_)
ConstructedOverlays(indicators) ==
    IF indicators = <<>> THEN <<>>
    ELSE (IF Head(indicators).cls = "Price" THEN Head(indicators).overlays
          ELSE <<Head(indicators)>>)
         \o ConstructedOverlays(Tail(indicators))

\* theme = theme_options[name]; a = A(df, ..., theme=theme); b = B(df, ..., theme=theme)
InitPanes ==
    /\ df \in SeqsUpTo(PaneBars, MaxPriceN)
    /\ \E name \in {"Light", "Dark"}, i \in DOMAIN PaneIndicators, j \in DOMAIN PaneIndicators :
         LET a == PaneIndicators[i]
             b == PaneIndicators[j]
         IN  /\ i < j
             /\ self = NewPanes(name, <<ConstructedIndicator(df, a),
                                        ConstructedIndicator(df, b)>>)
             /\ cols = ConstructedOverlayCols(df, NoCols, ConstructedOverlays(<<a, b>>))
    /\ ret = None
    /\ op = "__init__"

NextPanes == PanesCalculate \/ PanesPane \/ PanesGetSeriesConfigs

SpecPanes == InitPanes /\ [][NextPanes]_vars

----------------------------------------------------------------------------
(* Specification of the demo's price pane in the Area style *)

\* closes that rise, fall and stay from the first bar to the last
AreaBars == {Bar(c, c, c, c, 1) : c \in {1, 2, 3}}

\* PriceIndicator(df, style="Area", theme=theme_options[name])
InitArea ==
    /\ df \in SeqsUpTo(AreaBars, MaxPriceN)
    /\ \E name \in ThemeNames :
         Constructed(WithTheme(NewPriceIndicator("demo", "Area", <<>>, <<>>, <<>>),
                               theme_options(name)))

NextArea == PriceCalculate \/ PricePane

SpecArea == InitArea /\ [][NextArea]_vars

----------------------------------------------------------------------------
(* Specification of the volume pane *)

\* bars that rise, fall and stay, with and without volume
VolumeBars == {Bar(o, 3, 1, c, v) : o \in {1, 2}, c \in {1, 2}, v \in {0, 5}}

\* VolumeIndicator(df)
InitVolume ==
    /\ df \in SeqsUpTo(VolumeBars, MaxPriceN)
    /\ Constructed(NewObject("Volume"))

NextVolume == VolumeCalculate \/ VolumePane

SpecVolume == InitVolume /\ [][NextVolume]_vars

----------------------------------------------------------------------------
(* Specification of theme resolution *)

InitThemes ==
    /\ df = <<>>
    /\ cols = NoCols
    /\ self = NewThemes
    /\ ret = None
    /\ op = "__init__"

NextThemes == ThemeResolve \/ ThemeToDict \/ DictMutate

SpecThemes == InitThemes /\ [][NextThemes]_vars

----------------------------------------------------------------------------
(* Specification of a render cycle on bars that may lack a column *)

\* a bar of a DataFrame without the column
Without(bar, name) == [key \in DOMAIN bar \ {name} |-> bar[key]]

\* DataFrames with all the columns, without volume and without close
RenderFrames ==
    LET full == SeqsUpTo(AVWAPBars, MaxPriceN)
    IN  full
        \cup {[t \in 1..Len(d) |-> Without(d[t], "volume")] : d \in full}
        \cup {[t \in 1..Len(d) |-> Without(d[t], "close")] : d \in full}

\* PriceIndicator(df, overlays=[...]) with the overlays that compute in their
\* __init__, each under its own try/except
RenderObjects ==
    {NewPriceIndicator(impl, "Candlestick", overlays, <<>>, <<>>) :
        impl \in {"lib", "demo"},
        overlays \in SeqsUpTo({PivotHighOverlay, AVWAPOverlay}, 2)}

InitRender ==
    /\ df \in RenderFrames
    /\ \E o \in RenderObjects :
         /\ self = [o EXCEPT !.overlays = [k \in 1..Len(o.overlays) |->
                                             ConstructedOverlay(df, o.overlays[k])]]
         /\ cols = ConstructedOverlayCols(df, NoCols, o.overlays)
    /\ ret = None
    /\ op = "__init__"

NextRender == PriceCalculate \/ PricePane

SpecRender == InitRender /\ [][NextRender]_vars

----------------------------------------------------------------------------
(* Properties of pivot detection, stated on the raw bar values *)

N == Len(df)

Highs == [t \in 1..Len(df) |-> df[t].high]

Lows == [t \in 1..Len(df) |-> df[t].low]

\* the indices of a sequence, as a set
Elems(s) == {s[k] : k \in 1..Len(s)}

StrictlyAscending(s) == \A k \in 1..(Len(s) - 1) : s[k] < s[k + 1]

\* the strict local extrema of v under strengths (L, R)
StrictExtrema(v, L, R, kind) ==
    {i \in 0..(Len(v) - 1) :
        /\ L <= i
        /\ i < Len(v) - R
        /\ \A j \in 1..L : IF kind = "high" THEN v[i + 1] > v[i + 1 - j]
                                            ELSE v[i + 1] < v[i + 1 - j]
        /\ \A j \in 1..R : IF kind = "high" THEN v[i + 1] > v[i + 1 + j]
                                            ELSE v[i + 1] < v[i + 1 + j]}

ExactPivots(pivots, v, kind) ==
    /\ StrictlyAscending(pivots)
    /\ Elems(pivots) = StrictExtrema(v, self.left_strength, self.right_strength, kind)
    /\ \A i \in Elems(pivots) : i + self.right_strength <= Len(v) - 1

\* C1: with N >= L+R+1 bars the pivot lists hold, ascending and without
\* duplicates, exactly the strict local extrema i with L <= i < N-R (highs of
\* `high`, lows of `low`), so every pivot i has i+R <= N-1.
PivotDetectionExact ==
    N >= self.left_strength + self.right_strength + 1 =>
        /\ ExactPivots(self.pivot_high_indices, Highs, "high")
        /\ self.cls = "AVWAP" => ExactPivots(self.pivot_low_indices, Lows, "low")

\* two pivots of each kind found by an AVWAP with positive strengths
PivotDetectionWitness ==
    /\ self.cls = "AVWAP"
    /\ self.left_strength >= 1
    /\ self.right_strength >= 1
    /\ Len(self.pivot_high_indices) >= 2
    /\ Len(self.pivot_low_indices) >= 2

AdjacentEqualBothPivots(pivots, v) ==
    \E i \in 0..(Len(v) - 2) :
        /\ v[i + 1] = v[i + 2]
        /\ i \in Elems(pivots)
        /\ (i + 1) \in Elems(pivots)

\* C2 as stated: for any non-negative strengths, no two adjacent indices
\* holding equal values are both pivots of the same kind.
NoAdjacentEqualPivots ==
    /\ ~AdjacentEqualBothPivots(self.pivot_high_indices, Highs)
    /\ ~AdjacentEqualBothPivots(self.pivot_low_indices, Lows)

\* C2 amended: when at least one of the strengths is positive, no two adjacent
\* indices holding equal values are both pivots of the same kind.
NoAdjacentEqualPivotsPositiveStrength ==
    (self.left_strength >= 1 \/ self.right_strength >= 1) => NoAdjacentEqualPivots

\* a tie between two adjacent candidate rows, next to a detected pivot
NoAdjacentEqualPivotsWitness ==
    /\ self.left_strength + self.right_strength >= 1
    /\ \E i \in self.left_strength..(N - self.right_strength - 2) :
         /\ Highs[i + 1] = Highs[i + 2]
         /\ \E p \in Elems(self.pivot_high_indices) : p = i - 1 \/ p = i + 2

\* C3: with fewer than L+R+1 bars nothing raises, the pivot lists are empty
\* after calculate() and get_series_configs() returns the empty list.
PivotsFailSoft ==
    N < self.left_strength + self.right_strength + 1 =>
        /\ self.pivot_high_indices = <<>>
        /\ self.pivot_low_indices = <<>>
        /\ op = "calculate" => ret = None
        /\ op = "get_series_configs" => ret = Returned("series", <<>>)

\* get_series_configs() has returned on a non-empty bar sequence that is too short
PivotsFailSoftWitness ==
    /\ N >= 1
    /\ N < self.left_strength + self.right_strength + 1
    /\ op = "get_series_configs"

----------------------------------------------------------------------------
(* Properties of the indicators computed by calculate(), stated on the closes *)

Closes == [t \in 1..Len(df) |-> df[t].close]

\* v[a] + ... + v[b] for integers (1-based, inclusive)
RECURSIVE SumInts(_, _, _)
SumInts(v, a, b) == IF a > b THEN 0 ELSE v[a] + SumInts(v, a + 1, b)

\* the data of the first descriptor returned
Data == ret.series[1].data

\* the bar indices of the points of a data list, in order
Times(data) == [k \in 1..Len(data) |-> data[k].time]

\* the ascending sequence of the members of a set of integers
RECURSIVE Ascending(_)
Ascending(S) ==
    IF S = {} THEN <<>>
    ELSE LET lo == CHOOSE x \in S : \A y \in S : x <= y
         IN  <<lo>> \o Ascending(S \ {lo})

\* the value n/d equals the integer quotient a/b (b > 0)
EqualsRatio(value, a, b) == value[2] > 0 /\ value[1] * b = value[2] * a

SMAReturned ==
    /\ self.cls = "SMA"
    /\ op = "get_series_configs"
    /\ HasCol(cols, SMAColumn(self))

\* C4: after calculate(), get_series_configs() returns one descriptor whose data
\* has exactly max(0, N-period+1) points, those of the bars period-1 .. N-1, each
\* the arithmetic mean of the trailing `period` closes; with N < period the
\* descriptor is returned with empty data.
SMAWarmUp ==
    SMAReturned =>
        /\ ret.kind = "series"
        /\ Len(ret.series) = 1
        /\ ret.series[1].type = "Line"
        /\ Len(Data) = Max(0, N - self.period + 1)
        /\ Times(Data) = Ascending((self.period - 1)..(N - 1))
        /\ \A k \in 1..Len(Data) :
             LET t == Data[k].time
             IN  EqualsRatio(Data[k].value,
                             SumInts(Closes, t - self.period + 2, t + 1), self.period)

\* a mean over at least two closes that differ, after a warm-up
SMAWarmUpWitness ==
    /\ SMAReturned
    /\ self.period >= 2
    /\ N > self.period
    /\ \E k \in 1..Len(Data) : Data[k].value[2] > 1

RSIReturned ==
    /\ self.cls = "RSI"
    /\ op = "pane"
    /\ HasCol(cols, RSIColumn)

\* the closes of bars t-window .. t are all the same (t 0-based)
FlatWindow(t) ==
    \A j \in (t - self.window + 1)..t : Closes[j] = Closes[j + 1]

\* no close of bars t-window+1 .. t is below its predecessor: average loss 0
ZeroLossWindow(t) ==
    \A j \in (t - self.window + 1)..t : Closes[j] <= Closes[j + 1]

\* C5 as stated: after calculate(), the series emitted by pane() has exactly
\* max(0, N-window) points, those of the bars window .. N-1, whatever the closes.
RSIWarmUpAnyCloses ==
    RSIReturned =>
        /\ ret.kind = "pane"
        /\ Len(Data) = Max(0, N - self.window)
        /\ Times(Data) = Ascending(self.window..(N - 1))

\* C5 amended: the series emitted by pane() has exactly one point for each bar
\* t of window .. N-1 whose closes over bars t-window .. t are not all equal and
\* no other point, so exactly max(0, N-window) points when no window is flat.
RSIWarmUpNonFlat ==
    RSIReturned =>
        /\ ret.kind = "pane"
        /\ Times(Data) = Ascending({t \in self.window..(N - 1) : ~FlatWindow(t)})
        /\ (\A t \in self.window..(N - 1) : ~FlatWindow(t)) =>
               Len(Data) = Max(0, N - self.window)

\* pane() has returned points although one window of closes is flat
RSIWarmUpWitness ==
    /\ RSIReturned
    /\ Len(Data) >= 1
    /\ \E t \in self.window..(N - 1) : FlatWindow(t)

HasPointAt(data, t) == \E k \in 1..Len(data) : data[k].time = t

WilliamsRReturned ==
    /\ self.cls = "WilliamsR"
    /\ op = "pane"
    /\ HasCol(cols, WilliamsRColumn)

\* the extreme of the highs / lows over bars t-period+1 .. t (t 0-based)
HighestHigh(t) ==
    CHOOSE h \in {df[j].high : j \in (t - self.period + 2)..(t + 1)} :
        \A j \in (t - self.period + 2)..(t + 1) : df[j].high <= h

LowestLow(t) ==
    CHOOSE l \in {df[j].low : j \in (t - self.period + 2)..(t + 1)} :
        \A j \in (t - self.period + 2)..(t + 1) : l <= df[j].low

\* C6: the first period-1 bars yield no point; a bar t >= period-1 whose
\* highest high equals its lowest low over the trailing period yields no point
\* whatever its close; every other bar t >= period-1 yields exactly one point of
\* value -100*(highestHigh - close)/(highestHigh - lowestLow).
WilliamsRFlatRangeUndefined ==
    WilliamsRReturned =>
        /\ ret.kind = "pane"
        /\ \A t \in 0..(N - 1) :
             IF t < self.period - 1 \/ HighestHigh(t) = LowestLow(t)
             THEN ~HasPointAt(Data, t)
             ELSE /\ Cardinality({k \in 1..Len(Data) : Data[k].time = t}) = 1
                  /\ \A k \in 1..Len(Data) :
                       Data[k].time = t =>
                           EqualsRatio(Data[k].value,
                                       -100 * (HighestHigh(t) - Closes[t + 1]),
                                       HighestHigh(t) - LowestLow(t))

\* C7 as stated: a bar of window .. N-1 whose trailing-window average loss is
\* zero yields no RSI point.
RSIZeroLossNoPoint ==
    RSIReturned =>
        \A t \in self.window..(N - 1) : ZeroLossWindow(t) => ~HasPointAt(Data, t)

\* C7 amended: a bar of window .. N-1 whose trailing-window average loss is
\* zero yields no point when the average gain is zero as well, and exactly one
\* point, of value 100, when the average gain is positive.
RSIZeroLossPoint ==
    RSIReturned =>
        \A t \in self.window..(N - 1) :
            ZeroLossWindow(t) =>
                IF FlatWindow(t)
                THEN ~HasPointAt(Data, t)
                ELSE /\ Cardinality({k \in 1..Len(Data) : Data[k].time = t}) = 1
                     /\ \A k \in 1..Len(Data) :
                          Data[k].time = t => Data[k].value = Float(100)

\* pane() has returned with a rising window and with a flat window
RSIZeroLossWitness ==
    /\ RSIReturned
    /\ \E t \in self.window..(N - 1) : ZeroLossWindow(t) /\ ~FlatWindow(t)
    /\ \E t \in self.window..(N - 1) : FlatWindow(t)

MACDCalculated ==
    /\ self.cls = "MACD"
    /\ HasCol(cols, MACDColumn("MACD_hist"))

\* y is the exponential mean of x: y(0) = x(0) and
\* y(t) = y(t-1) + alpha * (x(t) - y(t-1)) with alpha = 2/(span+1)
FollowsEMA(y, x, span) ==
    /\ Len(y) = Len(x)
    /\ Len(x) >= 1 => y[1] = x[1]
    /\ \A t \in 2..Len(x) :
         y[t] = FAdd(y[t - 1],
                     FMul(FDiv(Float(2), Float(span + 1)), FSub(x[t], y[t - 1])))

\* C8: both EMAs start at close(0) and follow the recursion with
\* alpha = 2/(span+1), as does the signal over the MACD line, so
\* MACD(0) = signal(0) = histogram(0) = 0, and the histogram series emitted by
\* pane() has exactly N points, one per bar.
MACDNoWarmUp ==
    MACDCalculated =>
        LET closes == [t \in 1..N |-> Float(Closes[t])]
            EMA_fast == cols[MACDColumn("EMA_fast")]
            EMA_slow == cols[MACDColumn("EMA_slow")]
            MACD == cols[MACDColumn("MACD")]
            MACD_signal == cols[MACDColumn("MACD_signal")]
            MACD_hist == cols[MACDColumn("MACD_hist")]
        IN  /\ FollowsEMA(EMA_fast, closes, self.fast_period)
            /\ FollowsEMA(EMA_slow, closes, self.slow_period)
            /\ FollowsEMA(MACD_signal, MACD, self.signal_period)
            /\ \A t \in 1..N : /\ MACD[t] = FSub(EMA_fast[t], EMA_slow[t])
                               /\ MACD_hist[t] = FSub(MACD[t], MACD_signal[t])
                               /\ IsFinite(MACD_hist[t])
            /\ N >= 1 => /\ MACD[1] = Float(0)
                         /\ MACD_signal[1] = Float(0)
                         /\ MACD_hist[1] = Float(0)
            /\ op = "pane" =>
                 /\ ret.kind = "pane"
                 /\ ret.series[1].type = "Histogram"
                 /\ Len(Data) = N
                 /\ \A t \in 1..N : /\ Data[t].time = t - 1
                                    /\ Data[t].value = MACD_hist[t]

\* pane() has returned a histogram that leaves zero after bar 0
MACDNoWarmUpWitness ==
    /\ MACDCalculated
    /\ op = "pane"
    /\ N >= 3
    /\ self.fast_period # self.slow_period
    /\ self.signal_period >= 2
    /\ \E t \in 2..N : Data[t].value # Float(0)

----------------------------------------------------------------------------
(* Properties of the AVWAP overlay, stated on the raw bars *)

AVWAPReturned(realistic_mode) ==
    /\ self.cls = "AVWAP"
    /\ self.realistic_mode = realistic_mode
    /\ op = "get_series_configs"
    /\ ret.kind = "series"

PivotsOf(kind) ==
    IF kind = "high" THEN self.pivot_high_indices ELSE self.pivot_low_indices

ColorOf(kind) == IF kind = "high" THEN "pivot_high" ELSE "pivot_low"

PriceOf(kind, t) == IF kind = "high" THEN df[t + 1].high ELSE df[t + 1].low

\* sums over the bars p .. t (0-based)
RECURSIVE SumVolume(_, _)
SumVolume(p, t) == IF p > t THEN 0 ELSE df[t + 1].volume + SumVolume(p, t - 1)

RECURSIVE SumPriceVolume(_, _, _)
SumPriceVolume(kind, p, t) ==
    IF p > t THEN 0
    ELSE PriceOf(kind, t) * df[t + 1].volume + SumPriceVolume(kind, p, t - 1)

\* the bars of [a, b) whose VWAP anchored at p is defined
DefinedBars(p, a, b) == {t \in a..(b - 1) : p <= t /\ t < N /\ SumVolume(p, t) # 0}

\* what a descriptor shows: colour, line style and the bars of its points
Shape(descriptor) == <<descriptor.color, descriptor.lineStyle, Times(descriptor.data)>>

Shapes(series) == [k \in 1..Len(series) |-> Shape(series[k])]

\* the dashed and solid shapes expected of pivots i.. of a kind in normal mode
RECURSIVE ExpectedShapes(_, _)
ExpectedShapes(kind, i) ==
    LET pivots == PivotsOf(kind)
    IN  IF i > Len(pivots) THEN <<>>
        ELSE LET p == pivots[i]
                 e == IF i < Len(pivots) THEN pivots[i + 1] ELSE N
                 R == self.right_strength
                 dashed == DefinedBars(p, p, Min(p + R, e))
                 solid == DefinedBars(p, p + R, e)
             IN  (IF dashed # {} THEN <<<<ColorOf(kind), 2, Ascending(dashed)>>>>
                  ELSE <<>>)
                 \o (IF solid # {} THEN <<<<ColorOf(kind), 0, Ascending(solid)>>>>
                     ELSE <<>>)
                 \o ExpectedShapes(kind, i + 1)

\* C9: in normal mode the descriptors of pivot i of a kind are a dashed
\* sub-series holding exactly the defined bars of [p_i, min(p_i+R, e_i)) followed
\* by a solid one holding exactly the defined bars of [p_i+R, e_i), with e_i the
\* next pivot or N; they are disjoint, cover the defined bars of [p_i, e_i) and
\* nothing else, and a sub-series without points is not emitted.
AVWAPNormalSegments ==
    AVWAPReturned(FALSE) =>
        Shapes(ret.series) = ExpectedShapes("high", 1) \o ExpectedShapes("low", 1)

\* a pivot drawn dashed then solid, another cut short by the next pivot, and a
\* bar without a defined VWAP
AVWAPNormalSegmentsWitness ==
    /\ AVWAPReturned(FALSE)
    /\ self.right_strength >= 1
    /\ \E k \in 1..(Len(ret.series) - 1) :
         /\ ret.series[k].lineStyle = 2
         /\ ret.series[k + 1].lineStyle = 0
         /\ ret.series[k].color = ret.series[k + 1].color
    /\ \E i \in 1..(Len(self.pivot_high_indices) - 1) :
         self.pivot_high_indices[i + 1] < self.pivot_high_indices[i] + self.right_strength
    /\ \E i \in 1..Len(self.pivot_high_indices) :
         df[self.pivot_high_indices[i] + 1].volume = 0

\* the points of the descriptors of a kind, as (bar, value) pairs
PointsOf(kind) ==
    UNION {{<<ret.series[k].data[j].time, ret.series[k].data[j].value>> :
                j \in 1..Len(ret.series[k].data)} :
           k \in {k2 \in 1..Len(ret.series) : ret.series[k2].color = ColorOf(kind)}}

\* the pivots whose series may hold bar t: drawn from the pivot in normal
\* mode, from the pivot's confirmation R bars later in realistic mode
Anchors(kind, t) ==
    {p \in Elems(PivotsOf(kind)) :
        p + (IF self.realistic_mode THEN self.right_strength ELSE 0) <= t}

\* the pivot whose series holds bar t: the last of them
AnchorOf(kind, t) == CHOOSE p \in Anchors(kind, t) : \A q \in Anchors(kind, t) : q <= p

\* C10: in both modes a point emitted at bar t in the series of the pivot
\* anchored at p has value (sum over p..t of price*volume) / (sum over p..t of
\* volume), high for high pivots and low for low pivots, accumulated from p
\* itself; a bar whose cumulative volume from p is zero yields no point.
AVWAPValue ==
    (self.cls = "AVWAP" /\ op = "get_series_configs" /\ ret.kind = "series") =>
        \A kind \in {"high", "low"} :
            /\ \A pt \in PointsOf(kind) :
                 /\ Anchors(kind, pt[1]) # {}
                 /\ LET p == AnchorOf(kind, pt[1])
                    IN  /\ SumVolume(p, pt[1]) # 0
                        /\ EqualsRatio(pt[2], SumPriceVolume(kind, p, pt[1]),
                                       SumVolume(p, pt[1]))
            /\ \A t \in 0..(N - 1) :
                 (Anchors(kind, t) # {} /\ SumVolume(AnchorOf(kind, t), t) # 0)
                     <=> (\E pt \in PointsOf(kind) : pt[1] = t)

\* realistic mode: the first drawn point of a pivot, R >= 1 bars after it,
\* whose value is not the price of its own bar, and a drawn bar left out
\* because no volume has traded since its pivot
AVWAPValueWitness ==
    /\ AVWAPReturned(TRUE)
    /\ self.right_strength >= 1
    /\ \E pt \in PointsOf("high") :
         /\ pt[1] = AnchorOf("high", pt[1]) + self.right_strength
         /\ pt[2] # Float(PriceOf("high", pt[1]))
    /\ \E kind \in {"high", "low"}, t \in 0..(N - 1) :
         /\ Anchors(kind, t) # {}
         /\ SumVolume(AnchorOf(kind, t), t) = 0

----------------------------------------------------------------------------
(* Properties of the AVWAP overlay in realistic mode *)

\* the descriptors of a kind, in the order returned
RECURSIVE SelectColor(_, _)
SelectColor(series, color) ==
    IF series = <<>> THEN <<>>
    ELSE (IF Head(series).color = color THEN <<Head(series)>> ELSE <<>>)
         \o SelectColor(Tail(series), color)

DescriptorsOf(kind) == SelectColor(ret.series, ColorOf(kind))

\* where the series of pivot i (1-based) of a kind stops in realistic mode:
\* at the confirmation of the next pivot, or at the end of the data
RealisticEnd(kind, i) ==
    IF i < Len(PivotsOf(kind)) THEN PivotsOf(kind)[i + 1] + self.right_strength ELSE N

RealisticBars(kind, i) ==
    DefinedBars(PivotsOf(kind)[i], PivotsOf(kind)[i] + self.right_strength,
                RealisticEnd(kind, i))

\* the pivots (1-based positions) of a kind that have a defined bar to draw
DrawnPivots(kind) ==
    Ascending({i \in 1..Len(PivotsOf(kind)) : RealisticBars(kind, i) # {}})

\* C11: in realistic mode one descriptor is emitted per pivot that has a
\* defined point, in pivot order; it holds no bar below p+R, starts at bar p+R
\* when the VWAP there is defined, and no descriptor is dashed.
AVWAPRealisticStart ==
    AVWAPReturned(TRUE) =>
        /\ \A k \in 1..Len(ret.series) :
             /\ ret.series[k].lineStyle = NoStyle
             /\ ret.series[k].data # <<>>
        /\ \A kind \in {"high", "low"} :
             /\ Len(DescriptorsOf(kind)) = Len(DrawnPivots(kind))
             /\ \A k \in 1..Len(DescriptorsOf(kind)) :
                  LET p == PivotsOf(kind)[DrawnPivots(kind)[k]]
                      times == Times(DescriptorsOf(kind)[k].data)
                  IN  /\ \A j \in 1..Len(times) : times[j] >= p + self.right_strength
                      /\ SumVolume(p, p + self.right_strength) # 0 =>
                             times[1] = p + self.right_strength

\* a pivot high drawn from its confirmation on, a series whose first point
\* comes later for lack of volume, and a pivot that is not drawn at all
AVWAPRealisticStartWitness ==
    /\ AVWAPReturned(TRUE)
    /\ self.right_strength >= 1
    /\ \E k \in 1..Len(DescriptorsOf("high")) :
         DescriptorsOf("high")[k].data[1].time
             = PivotsOf("high")[DrawnPivots("high")[k]] + self.right_strength
    /\ \E kind \in {"high", "low"} : \E k \in 1..Len(DescriptorsOf(kind)) :
         DescriptorsOf(kind)[k].data[1].time
             > PivotsOf(kind)[DrawnPivots(kind)[k]] + self.right_strength
    /\ \E kind \in {"high", "low"} : Len(DrawnPivots(kind)) < Len(PivotsOf(kind))

\* C12 as stated: in realistic mode the series of pivot i holds only bars of
\* [p_i+R, p_{i+1}), the next pivot of the kind excluded.
AVWAPRealisticInsideSegment ==
    AVWAPReturned(TRUE) =>
        \A kind \in {"high", "low"} :
            /\ Len(DescriptorsOf(kind)) = Len(DrawnPivots(kind))
            /\ \A k \in 1..Len(DescriptorsOf(kind)) :
                 LET i == DrawnPivots(kind)[k]
                     times == Times(DescriptorsOf(kind)[k].data)
                 IN  \A j \in 1..Len(times) :
                        /\ times[j] >= PivotsOf(kind)[i] + self.right_strength
                        /\ i < Len(PivotsOf(kind)) => times[j] < PivotsOf(kind)[i + 1]

\* C12 amended: in realistic mode the series of pivot i holds exactly the
\* defined bars of [p_i+R, p_{i+1}+R): it runs on through the next pivot's
\* unconfirmed window and stops at that pivot's confirmation (or at N).
AVWAPRealisticUntilConfirmation ==
    AVWAPReturned(TRUE) =>
        \A kind \in {"high", "low"} :
            /\ Len(DescriptorsOf(kind)) = Len(DrawnPivots(kind))
            /\ \A k \in 1..Len(DescriptorsOf(kind)) :
                 Times(DescriptorsOf(kind)[k].data)
                     = Ascending(RealisticBars(kind, DrawnPivots(kind)[k]))

\* a series that holds the bar of the next pivot
AVWAPRealisticUntilConfirmationWitness ==
    /\ AVWAPReturned(TRUE)
    /\ self.right_strength >= 1
    /\ \E k \in 1..Len(DescriptorsOf("high")) :
         LET i == DrawnPivots("high")[k]
         IN  /\ i < Len(PivotsOf("high"))
             /\ HasPointAt(DescriptorsOf("high")[k].data, PivotsOf("high")[i + 1])

----------------------------------------------------------------------------
(* Properties of the PivotHigh rays *)

PivotHighReturned(realistic_mode) ==
    /\ self.cls = "PivotHigh"
    /\ self.realistic_mode = realistic_mode
    /\ op = "get_series_configs"
    /\ ret.kind = "series"

\* all the points returned, descriptor after descriptor
RECURSIVE Flatten(_)
Flatten(series) ==
    IF series = <<>> THEN <<>> ELSE Head(series).data \o Flatten(Tail(series))

\* the least member of a non-empty set of integers
Least(S) == CHOOSE x \in S : \A y \in S : x <= y

\* the first bar after bar `after` whose close is above the high of bar p, or N
FirstCloseAbove(p, after) ==
    LET above == {j \in (after + 1)..(N - 1) : df[j + 1].close > df[p + 1].high}
    IN  IF above = {} THEN N ELSE Least(above)

\* the confirmation of the pivot high after pivot i (1-based), or N
NextConfirmation(i) ==
    IF i < Len(self.pivot_high_indices)
    THEN self.pivot_high_indices[i + 1] + self.right_strength
    ELSE N

\* e_i = min(a, b, N), the close being looked for from bar `after` + 1 on
RayEnd(i, after) ==
    Min(Min(FirstCloseAbove(self.pivot_high_indices[i], after), NextConfirmation(i)), N)

\* the points of the ray of pivot i over the bars a .. b-1
RayPoints(i, a, b) ==
    LET p == self.pivot_high_indices[i]
    IN  [k \in 1..Max(0, b - a) |-> [time |-> a + k - 1, value |-> Float(df[p + 1].high)]]

\* the rays of pivots i.. from their pivot to e_i
RECURSIVE NormalRays(_)
NormalRays(i) ==
    IF i > Len(self.pivot_high_indices) THEN <<>>
    ELSE LET p == self.pivot_high_indices[i]
         IN  RayPoints(i, p, RayEnd(i, p)) \o NormalRays(i + 1)

\* C13: in normal mode the ray of pivot high p_i covers exactly the bars
\* [p_i, e_i), e_i = min(a, b, N) with a the first j > p_i whose close is above
\* high[p_i] and b = p_{i+1}+R, at the pivot's price; without a and b it
\* reaches bar N-1.
PivotHighRayTermination ==
    PivotHighReturned(FALSE) => Flatten(ret.series) = NormalRays(1)

\* a ray ended by a close above the pivot price before the next pivot is
\* confirmed, its dashed part followed by a solid part
PivotHighRayTerminationWitness ==
    /\ PivotHighReturned(FALSE)
    /\ self.right_strength >= 1
    /\ \E i \in 1..(Len(self.pivot_high_indices) - 1) :
         LET p == self.pivot_high_indices[i]
         IN  /\ FirstCloseAbove(p, p) < NextConfirmation(i)
             /\ FirstCloseAbove(p, p) > p + self.right_strength

\* the rays of pivots i.. from their confirmation p_i+R to the end found by
\* looking for a close from bar after(p_i) + 1 on
RECURSIVE RealisticRays(_, _)
RealisticRays(i, scan_from_pivot) ==
    IF i > Len(self.pivot_high_indices) THEN <<>>
    ELSE LET p == self.pivot_high_indices[i]
             after == IF scan_from_pivot THEN p ELSE p + self.right_strength
         IN  RayPoints(i, p + self.right_strength, RayEnd(i, after))
             \o RealisticRays(i + 1, scan_from_pivot)

AllSolid == \A k \in 1..Len(ret.series) : ret.series[k].lineStyle = 0

----------------------------------------------------------------------------
(* Properties of the price pane *)

\* pane() has just returned a pane
PaneReturned == op = "pane" /\ ret.kind = "pane"

\* what each overlay's get_series_configs() returns on the pane's DataFrame
OverlayOutputs ==
    [k \in 1..Len(self.overlays) |-> Overlay_get_series_configs(df, cols, self.overlays[k])]

\* the lists of a list, one after the other
RECURSIVE ConcatAll(_)
ConcatAll(lists) ==
    IF lists = <<>> THEN <<>> ELSE Head(lists) \o ConcatAll(Tail(lists))

\* a descriptor without the keys the pane attaches to it
Detached(config) ==
    [key \in DOMAIN config \ {"markers", "rectangles"} |-> config[key]]

\* the base descriptor of a style: candles carry the four prices of each bar,
\* a line carries the close
BaseDescriptor ==
    [type |-> self.style,
     data |-> [t \in 1..Len(df) |->
                 IF self.style = "Line"
                 THEN [time |-> t - 1, value |-> Float(df[t].close)]
                 ELSE [time |-> t - 1, open |-> Float(df[t].open),
                       high |-> Float(df[t].high), low |-> Float(df[t].low),
                       close |-> Float(df[t].close)]],
     color |-> IF self.style = "Line" THEN "primary_line_color" ELSE "upColor",
     lineStyle |-> NoStyle]

\* C15: the series list of a pane is the base price descriptor followed by the
\* descriptors of the overlays in argument order, each overlay's descriptors in
\* the order its get_series_configs() returned them; with no overlays the list
\* is the base descriptor alone.
CompositorOrdering ==
    PaneReturned =>
        /\ Len(ret.series) >= 1
        /\ Detached(ret.series[1]) = BaseDescriptor
        /\ Tail(ret.series) = ConcatAll(OverlayOutputs)
        /\ self.overlays = <<>> => Len(ret.series) = 1

\* a pane of two different overlays, of which one returned two descriptors
CompositorOrderingWitness ==
    /\ PaneReturned
    /\ Len(self.overlays) = 2
    /\ self.overlays[1].cls # self.overlays[2].cls
    /\ \E k \in 1..2 : Len(OverlayOutputs[k]) >= 2
    /\ \A k \in 1..2 : OverlayOutputs[k] # <<>> /\ OverlayOutputs[k][1].data # <<>>

\* C16: markers and rectangles are attached unchanged under their keys of the
\* first descriptor only: no descriptor is added for them, no overlay descriptor
\* carries them, and the key is absent when the list is empty.
AnnotationsOnBaseOnly ==
    PaneReturned =>
        /\ Len(ret.series) = 1 + Len(ConcatAll(OverlayOutputs))
        /\ \A k \in 2..Len(ret.series) :
             DOMAIN ret.series[k] \cap {"markers", "rectangles"} = {}
        /\ ("markers" \in DOMAIN ret.series[1]) <=> (self.markers # <<>>)
        /\ ("rectangles" \in DOMAIN ret.series[1]) <=> (self.rectangles # <<>>)
        /\ self.markers # <<>> => ret.series[1].markers = self.markers
        /\ self.rectangles # <<>> => ret.series[1].rectangles = self.rectangles

\* a pane with markers and rectangles and with overlay descriptors
AnnotationsOnBaseOnlyWitness ==
    /\ PaneReturned
    /\ self.markers # <<>>
    /\ self.rectangles # <<>>
    /\ Len(ret.series) >= 3
    /\ ret.series[1].markers = <<"marker">>
    /\ ret.series[1].rectangles = <<"rectangle">>

LastClose == df[Len(df)].close

PrevClose == df[Len(df) - 1].close

\* |pct| in hundredths, to the nearest: pct = (last - prev) / prev * 100
PctHundredths ==
    LET num == Abs(LastClose - PrevClose) * 10000
        den == Abs(PrevClose)
    IN  (2 * num + den) \div (2 * den)

PctNegative ==
    (LastClose < PrevClose /\ PrevClose > 0) \/ (LastClose > PrevClose /\ PrevClose < 0)

\* " (" + sign + |pct| to two decimals + "%)"
ExpectedSuffix ==
    " (" \o (IF PctNegative THEN "-" ELSE "+")
         \o ToString(PctHundredths \div 100) \o "."
         \o (IF PctHundredths % 100 < 10 THEN "0" ELSE "") \o ToString(PctHundredths % 100)
         \o "%)"

\* C17: with two bars or more and a previous close that is not 0, the title of
\* the pane is the base title followed by " (", the sign ("+" when pct >= 0,
\* "-" when pct < 0), |pct| to two decimals and "%)".
PercentChangeSuffix ==
    (PaneReturned /\ Len(df) >= 2 /\ PrevClose # 0) =>
        ret.title = self.title \o ExpectedSuffix

\* a fall from 20 to 19 is titled -5.00%
PercentChangeSuffixWitness ==
    /\ PaneReturned
    /\ Len(df) >= 2
    /\ PrevClose = 20
    /\ LastClose = 19
    /\ ret.title = "Title (-5.00%)"

\* every overlay has the column its descriptors are read from
OverlaysCalculated ==
    \A k \in 1..Len(self.overlays) : ~OverlayRaises(cols, self.overlays[k])

\* C18: on a DataFrame of exactly one bar, pane() returns a pane without
\* raising, and the title is the base title without a suffix.
OneBarPane ==
    (op = "pane" /\ Len(df) = 1 /\ OverlaysCalculated) =>
        /\ ret.kind = "pane"
        /\ ret.title = self.title

\* C19: when the previous close is 0 (two bars or more), pane() returns a pane
\* titled with the base title alone: no infinite or not-a-number percentage is
\* rendered into the title.
ZeroPrevCloseNoSuffix ==
    (op = "pane" /\ Len(df) >= 2 /\ PrevClose = 0 /\ OverlaysCalculated) =>
        /\ ret.kind = "pane"
        /\ ret.title = self.title

----------------------------------------------------------------------------
(* Properties of repeated calculate() calls *)

\* calculate() has run on the object (on each overlay of a PriceIndicator):
\* the pivot overlays run it in __init__, the others own their column by then
HasCalculated ==
    CASE self.cls \in {"AVWAP", "PivotHigh"} -> TRUE
      [] self.cls = "SMA" -> HasCol(cols, SMAColumn(self))
      [] self.cls = "RSI" -> HasCol(cols, RSIColumn)
      [] self.cls = "MACD" -> HasCol(cols, MACDColumn("MACD"))
      [] self.cls = "WilliamsR" -> HasCol(cols, WilliamsRColumn)
      [] self.cls = "Price" -> OverlaysCalculated

\* C20: a calculate() that follows an earlier calculate() on the same bars
\* leaves the pivot lists and every derived column as they were, for every
\* indicator; what pane()/get_series_configs() return is read from these and
\* from the bars alone, so it is the same as well.
CalculateIdempotent ==
    [][(HasCalculated /\ op' = "calculate") => (self' = self /\ cols' = cols)]_vars

\* calculate() has run on a PriceIndicator whose overlays are a pivot overlay
\* with pivots, calculated once already by its __init__, and an SMA with values
CalculateIdempotentWitness ==
    /\ op = "calculate"
    /\ self.cls = "Price"
    /\ Len(self.overlays) = 2
    /\ self.overlays[1].cls = "SMA"
    /\ self.overlays[2].cls \in {"AVWAP", "PivotHigh"}
    /\ self.overlays[2].pivot_high_indices # <<>>
    /\ \E t \in 1..Len(df) : ~IsNaN(cols[SMAColumn(self.overlays[1])][t])
    /\ \E t \in 1..Len(df) :
         ~IsNaN(cols[IF self.overlays[2].cls = "AVWAP"
                     THEN AVWAPOutputColumns(self.overlays[2])[1]
                     ELSE PivotHighOutputColumn(self.overlays[2])][t])

----------------------------------------------------------------------------
(* Properties of the bars as input *)

BaseColumns == {"open", "high", "low", "close", "volume"}

\* what df[name] reads for a base column of the DataFrame: an assignment
\* df[name] = series by an indicator would have replaced the bars' values
FrameColumn(d, c, name) ==
    IF HasCol(c, ColKey(name, 0, 0)) THEN c[ColKey(name, 0, 0)] ELSE Column(d, name)

\* C21: no calculate(), pane() or get_series_configs() changes the number or
\* order of the rows or any open/high/low/close/volume value: the bars stay as
\* they are and the only effect is that derived columns, one value per row,
\* are added or rewritten.
BarsReadOnly ==
    [][/\ df' = df
       /\ \A name \in BaseColumns :
            FrameColumn(df', cols', name) = FrameColumn(df, cols, name)
       /\ \A key \in DOMAIN cols' : Len(cols'[key]) = Len(df)]_vars

\* calculate() has added the five MACD columns to bars that read as before
BarsReadOnlyWitness ==
    /\ op = "calculate"
    /\ self.cls = "MACD"
    /\ Len(df) >= 2
    /\ Cardinality(DOMAIN cols) = 5
    /\ \A name \in BaseColumns : FrameColumn(df, cols, name) = Column(df, name)
    /\ \E t \in 1..Len(df) : cols[MACDColumn("MACD_hist")][t] # Float(0)

----------------------------------------------------------------------------
(* Properties of a render cycle whose overlay computation fails *)

\* the calculate() of the overlay hit a missing column partway: an AVWAP that
\* has an anchor needs volume, a PivotHigh that has a bar to scan needs close
CalculateFailed(o) ==
    \/ /\ o.cls = "AVWAP"
       /\ ~HasBaseColumn(df, "volume")
       /\ (o.pivot_high_indices # <<>> \/ o.pivot_low_indices # <<>>)
    \/ /\ o.cls = "PivotHigh"
       /\ ~HasBaseColumn(df, "close")
       /\ \E i \in 1..Len(o.pivot_high_indices) :
            o.pivot_high_indices[i] + 1 < Len(df)

\* C22: a render cycle returns complete panes or raises: when the computation
\* of an overlay failed partway, pane() returns no pane.
NoPartialPanes ==
    (op = "pane" /\ \E k \in 1..Len(self.overlays) : CalculateFailed(self.overlays[k]))
        => ret.kind # "pane"

----------------------------------------------------------------------------
(* Properties of theme resolution *)

TopLevelKeys ==
    {"layout", "grid", "titleOptions", "seriesColors", "indicatorColors",
     "crosshair", "priceScale", "timeScale"}

\* the dictionary a to_dict() call returned, as its caller sees it now
DictOf(r) == self.heap[self.refs[r].id]

NameOf(r) == self.themes[self.refs[r].theme].name

Unchanged(r) == self.refs[r].changed = ""

\* C23: the dictionaries of two resolutions of the same named theme are equal
\* and have the top-level keys layout, grid, titleOptions, seriesColors,
\* indicatorColors, crosshair, priceScale and timeScale; a dictionary whose own
\* caller did not change it is not changed by a change made to another.
ThemeResolutionPure ==
    self.cls = "Themes" =>
        /\ \A r \in 1..Len(self.refs) :
             Unchanged(r) =>
                 /\ TopLevelKeys \subseteq DOMAIN DictOf(r)
                 /\ DictOf(r).timeScale # [visible |-> FALSE]
                 /\ DictOf(r).layout.textColor # "changed"
        /\ \A r1, r2 \in 1..Len(self.refs) :
             (Unchanged(r1) /\ Unchanged(r2) /\ NameOf(r1) = NameOf(r2))
                 => DictOf(r1) = DictOf(r2)

\* "Dark" resolved twice, to_dict() called on each, and one of the two
\* dictionaries changed by its caller
ThemeResolutionPureWitness ==
    /\ self.cls = "Themes"
    /\ Len(self.refs) = 2
    /\ self.refs[1].theme # self.refs[2].theme
    /\ NameOf(1) = "Dark"
    /\ NameOf(2) = "Dark"
    /\ ~Unchanged(1)
    /\ Unchanged(2)
    /\ DictOf(2).layout.background.color = "#131722"
    /\ DictOf(1) # DictOf(2)

----------------------------------------------------------------------------
(* Properties of the volume pane *)

UpColor == "rgba(38,166,154,0.8)"

DownColor == "rgba(239,83,80,0.8)"

VolumeReturned == op = "pane" /\ self.cls = "Volume" /\ ret.kind = "pane"

\* C24: the volume pane holds exactly one Histogram descriptor with one point
\* per bar, in bar order; point t carries the raw volume of bar t, the
\* up-colour when open[t] <= close[t] and the down-colour otherwise.
VolumeHistogram ==
    VolumeReturned =>
        /\ Len(ret.series) = 1
        /\ ret.series[1].type = "Histogram"
        /\ Len(ret.series[1].data) = Len(df)
        /\ \A t \in 1..Len(df) :
             LET point == ret.series[1].data[t]
             IN  /\ point.time = t - 1
                 /\ point.value = <<df[t].volume, 1>>
                 /\ df[t].open <= df[t].close => point.color = UpColor
                 /\ df[t].open > df[t].close => point.color = DownColor

\* a volume pane of a rising bar without volume, an unchanged bar and a
\* falling bar
VolumeHistogramWitness ==
    /\ VolumeReturned
    /\ Len(df) = 3
    /\ df[1].open < df[1].close /\ df[1].volume = 0
    /\ df[2].open = df[2].close /\ df[2].volume > 0
    /\ df[3].open > df[3].close
    /\ ret.series[1].data[2].color = UpColor
    /\ ret.series[1].data[3].color = DownColor

----------------------------------------------------------------------------
(* Properties of the dashed and solid parts of a PivotHigh ray *)

\* the line-style code of the dashed part AVWAP draws over a pivot's
\* unconfirmed window
AVWAPDashedStyle ==
    LET d == <<Bar(1, 6, 1, 1, 1), Bar(2, 4, 2, 2, 2)>>
    IN  AVWAP_get_series_configs(d, AVWAPCalculatedCols(d, NoCols, AVWAPOverlay),
                                 AVWAPCalculatedObject(d, AVWAPOverlay))[1].lineStyle

\* the descriptors of the rays of pivots i..: the part [p, min(p+R, e)) in the
\* dashed style, then the part [min(p+R, e), e) solid, a part without points
\* left out
RECURSIVE SplitRays(_, _)
SplitRays(i, dashed) ==
    IF i > Len(self.pivot_high_indices) THEN <<>>
    ELSE LET p == self.pivot_high_indices[i]
             e == RayEnd(i, p)
             split == Min(p + self.right_strength, e)
         IN  (IF split > p
              THEN <<[data |-> RayPoints(i, p, split), lineStyle |-> dashed]>> ELSE <<>>)
             \o (IF e > split
                 THEN <<[data |-> RayPoints(i, split, e), lineStyle |-> 0]>> ELSE <<>>)
             \o SplitRays(i + 1, dashed)

\* what is compared of the descriptors returned
DataAndStyle(series) ==
    [k \in 1..Len(series) |-> [data |-> series[k].data, lineStyle |-> series[k].lineStyle]]

\* C25: in normal mode the ray [p, e) of each pivot high is emitted as a dashed
\* sub-series over [p, min(p+R, e)) and a solid one over [min(p+R, e), e), at
\* the value high[p]; the dashed one has the line-style code of AVWAP's
\* unconfirmed window, and a sub-series without points is not emitted.
PivotHighNormalSplit ==
    PivotHighReturned(FALSE) => DataAndStyle(ret.series) = SplitRays(1, AVWAPDashedStyle)

\* the same split with the line-style code the PivotHigh descriptors carry
PivotHighNormalSplitOwnStyle ==
    PivotHighReturned(FALSE) => DataAndStyle(ret.series) = SplitRays(1, 1)

----------------------------------------------------------------------------
(* Properties of the Area style *)

AreaReturned == op = "pane" /\ self.cls = "Price" /\ self.style = "Area" /\ ret.kind = "pane"

\* lastClose / firstClose - 1 >= 0, for closes above 0
Bullish == df[Len(df)].close >= df[1].close

DarkPair == {"rgba(76, 175, 80, 1)", "rgba(255, 82, 82, 1)"}

LightPair == {"rgba(0, 128, 0, 1)", "rgba(178, 34, 34, 1)"}

BullishColors == {"rgba(76, 175, 80, 1)", "rgba(0, 128, 0, 1)"}

\* C26: in the Area style the pane takes its colour from the dark-variant pair
\* exactly when the theme is the predefined Dark or Black theme, from the
\* light-variant pair for Light and Custom, and the bullish colour of the pair
\* iff lastClose/firstClose - 1 >= 0.
AreaDarkVariant ==
    AreaReturned =>
        LET color == ret.series[1].color
        IN  /\ color \in DarkPair <=> self.theme \in {ChartThemes_dark, ChartThemes_black}
            /\ color \in LightPair <=> self.theme \in {ChartThemes_light, ChartThemes_custom}
            /\ color \in BullishColors <=> Bullish

----------------------------------------------------------------------------
(* Properties of indicators that share their bars *)

\* what an indicator returns when it alone is constructed and calculated on a
\* private copy of the bars
Alone(o) ==
    IndicatorReturn(df, IndicatorCalculatedCols(df, NoCols, o), OverlayCalculatedObject(df, o))

\* C27: once every indicator constructed on the same bars has run calculate(),
\* in any order, each of them returns exactly the series it would return had it
\* alone been calculated on a private copy of the bars.
NoInterference ==
    (self.cls = "Shared" /\ op = "pane"
        /\ self.calculated = 1..Len(self.indicators))
        => [kind |-> ret.kind, series |-> ret.series] = Alone(self.indicators[ret.of])

----------------------------------------------------------------------------
(* Spacing of the pivots of one kind *)

\* every pair of distinct entries of a pivot list is more than gap bars apart
SpacedBy(pivots, gap) ==
    \A i, j \in 1..Len(pivots) : i # j => Abs(pivots[i] - pivots[j]) > gap

\* C28: any two distinct pivots of the same kind found by _find_pivots are more
\* than min(left_strength, right_strength) bars apart.
PivotSpacing ==
    self.cls \in {"AVWAP", "PivotHigh"} =>
        LET gap == Min(self.left_strength, self.right_strength)
        IN  /\ SpacedBy(self.pivot_high_indices, gap)
            /\ SpacedBy(self.pivot_low_indices, gap)

\* two pivot highs exactly min(L, R) + 1 bars apart, with positive strengths
PivotSpacingWitness ==
    /\ self.cls \in {"AVWAP", "PivotHigh"}
    /\ op = "calculate"
    /\ Min(self.left_strength, self.right_strength) >= 1
    /\ \E i, j \in 1..Len(self.pivot_high_indices) :
         self.pivot_high_indices[j] - self.pivot_high_indices[i]
             = Min(self.left_strength, self.right_strength) + 1

----------------------------------------------------------------------------
(* Properties of the series of different pivots *)

\* the overlays and modes in which each pivot has a segment of its own
AnchoredSeriesReturned ==
    /\ op = "get_series_configs"
    /\ ret.kind = "series"
    /\ self.cls = "AVWAP" \/ (self.cls = "PivotHigh" /\ self.realistic_mode)

\* the bar indices of all points of the descriptors of one kind, in order
RECURSIVE KindTimes(_, _)
KindTimes(series, color) ==
    IF series = <<>> THEN <<>>
    ELSE (IF Head(series).color = color THEN Times(Head(series).data) ELSE <<>>)
         \o KindTimes(Tail(series), color)

NoRepeat(s) == \A i, j \in 1..Len(s) : i # j => s[i] # s[j]

\* C29: for AVWAP in either mode (per kind) and PivotHigh in realistic mode no
\* bar index occurs in the series of two different pivots, so at most one value
\* per kind is drawn at any bar, and the points of every emitted descriptor are
\* in strictly ascending bar order.
NoOverlappingAnchors ==
    AnchoredSeriesReturned =>
        /\ \A color \in {ret.series[k].color : k \in 1..Len(ret.series)} :
             NoRepeat(KindTimes(ret.series, color))
        /\ \A k \in 1..Len(ret.series) : StrictlyAscending(Times(ret.series[k].data))

\* two pivots of one kind whose series both hold a point, in realistic mode
NoOverlappingAnchorsWitness ==
    /\ AnchoredSeriesReturned
    /\ self.realistic_mode
    /\ Len(self.pivot_high_indices) >= 2
    /\ self.right_strength >= 1
    /\ Len(KindTimes(ret.series, ret.series[1].color)) >= 2
    /\ \E k \in 2..Len(ret.series) :
         /\ ret.series[k].color = ret.series[1].color
         /\ ret.series[k].data[1].time = ret.series[1].data[Len(ret.series[1].data)].time + 1

----------------------------------------------------------------------------
(* Properties of rendering *)

\* the chart dictionary of the r-th pane returned, as it is now
ChartOf(r) == self.heap[self.refs[r].id]

\* every pane returned so far still holds the chart config its own pane() built:
\* the theme's dictionary, with the timeScale replaced in the oscillator panes only
PanesDoNotAlias ==
    self.cls = "Panes" =>
        \A r \in 1..Len(self.refs) :
            LET config == to_dict(self.themes[1].theme)
            IN  IF HidesTimeScale(self.indicators[self.refs[r].of])
                THEN ChartOf(r) = [config EXCEPT !.timeScale = [visible |-> FALSE]]
                ELSE ChartOf(r) = config /\ ChartOf(r).timeScale # [visible |-> FALSE]

\* pane() and get_series_configs() leave the bars, the derived columns, the
\* indicators with their pivot lists and the theme as they were, and a call that
\* follows a call on the same indicator returns an equal result
RenderingLeavesState ==
    (self.cls = "Panes" /\ op' \in {"pane", "get_series_configs"}) =>
        /\ df' = df
        /\ cols' = cols
        /\ self'.indicators = self.indicators
        /\ self'.calculated = self.calculated
        /\ self'.themes = self.themes
        /\ \A r \in 1..Len(self.refs) : self'.refs[r] = self.refs[r]
        /\ (op \in {"pane", "get_series_configs"} /\ ret'.of = ret.of) =>
               /\ [ret' EXCEPT !.chart = 0] = [ret EXCEPT !.chart = 0]
               /\ ret.chart # 0 => self'.heap[ret'.chart] = self'.heap[ret.chart]

\* C30: pane() and get_series_configs() change neither the bars, the derived
\* columns, the pivot lists nor the theme, repeated calls return equal results,
\* and the timeScale override of an oscillator pane never shows in the chart
\* config of another pane built from the same theme object.
RenderingReadOnly == []PanesDoNotAlias /\ [][RenderingLeavesState]_vars

\* a price or volume pane and then an oscillator pane, both on calculated
\* indicators and from one theme object: two dictionaries, one with the override
RenderingReadOnlyWitness ==
    /\ self.cls = "Panes"
    /\ op = "pane"
    /\ self.calculated = {1, 2}
    /\ Len(self.refs) = 2
    /\ ~HidesTimeScale(self.indicators[self.refs[1].of])
    /\ HidesTimeScale(self.indicators[self.refs[2].of])
    /\ ChartOf(2).timeScale = [visible |-> FALSE]
    /\ ChartOf(1).timeScale # [visible |-> FALSE]
    /\ ret.series # <<>>

====
